---- MODULE Spec2Model ----
(***************************************************************************)
(* Model of the task orchestration / streaming core of boltdiy-impl:       *)
(*   - TaskProcessor.processTask      (src/src/lib/TaskProcessor.ts)       *)
(*   - BoltDiyClient.streamImplementation / extractEvents                  *)
(*   - EventPublisher subscribe / unsubscribe / publish / close            *)
(*                                    (src/unnamed/part_007)               *)
(*   - streamTaskUpdates              (src/supabase/functions/api/index.ts)*)
(* JavaScript runs each stretch of code between two awaits atomically, so   *)
(* every action below is one such stretch.  Text is modelled as a sequence *)
(* of one-character strings.                                               *)
(***************************************************************************)
EXTENDS Integers, Sequences, FiniteSets, TLC

(***************************************************************************)
(* Bounds of the model                                                     *)
(***************************************************************************)
\* number of client connections that may attach to the task's stream
MaxConns == 1
\* number of chunks the upstream stream delivers before it closes or fails
MaxChunks == 1
\* number of files a fetched implementation result carries at most
MaxFiles == 1

\* largest retry count a BoltDiyClient is configured with
MaxConfigRetries == 2
\* number of event blocks the upstream stream delivers in all
MaxBlocks == 3
\* number of sinks that subscribe to the EventPublisher taken alone
MaxSinks == 2
\* number of messages a sink of the EventPublisher taken alone receives
MaxPublishes == 2

(***************************************************************************)
(* Program constants                                                       *)
(***************************************************************************)
MAX_RETRIES == 30
\* retries of a BoltDiyClient whose configuration gives none
DEFAULT_RETRIES == 3

Conns == 1..MaxConns

(***************************************************************************)
(* Text                                                                    *)
(***************************************************************************)
NL == "\n"
Whitespace == {" ", "\t", "\r"}

EventPrefix ==
    <<"e", "v", "e", "n", "t", ":">>
DataPrefix ==
    <<"d", "a", "t", "a", ":">>
T_status ==
    <<"t", "a", "s", "k", ".", "s", "t", "a", "t", "u", "s">>
T_completion ==
    <<"t", "a", "s", "k", ".", "c", "o", "m", "p", "l", "e", "t", "i", "o", "n">>
T_error ==
    <<"t", "a", "s", "k", ".", "e", "r", "r", "o", "r">>
T_connected ==
    <<"c", "o", "n", "n", "e", "c", "t", "e", "d">>
T_streamError ==
    <<"e", "r", "r", "o", "r">>

TerminalTypes == {T_completion, T_error}

\* Upstream chunks the backend's stream may deliver in this model.
ChunkOutput ==
    <<"e", "v", "e", "n", "t", ":", " ", "t", "a", "s", "k", ".", "o", "u", "t", "p", "u", "t", "\n",
      "d", "a", "t", "a", ":", " ", "{", "\"", "c", "o", "n", "t", "e", "n", "t", "\"", ":", "\"", "x", "\"", "}", "\n",
      "\n">>
ChunkCompletion ==
    <<"e", "v", "e", "n", "t", ":", " ", "t", "a", "s", "k", ".", "c", "o", "m", "p", "l", "e", "t", "i", "o", "n", "\n",
      "d", "a", "t", "a", ":", " ", "{", "\"", "i", "m", "p", "l", "e", "m", "e", "n", "t", "a", "t", "i", "o", "n", "\"", ":", "\"", "x", "\"", "}", "\n",
      "\n">>
Chunks == {ChunkOutput, ChunkCompletion}

\* String.prototype.startsWith
StartsWith(s, p) == Len(s) >= Len(p) /\ SubSeq(s, 1, Len(p)) = p

\* String.prototype.slice(n)
Slice(s, n) == SubSeq(s, n + 1, Len(s))

\* String.prototype.trim
RECURSIVE TrimLeft(_)
TrimLeft(s) ==
    IF s # <<>> /\ Head(s) \in Whitespace THEN TrimLeft(Tail(s)) ELSE s

RECURSIVE TrimRight(_)
TrimRight(s) ==
    IF s # <<>> /\ s[Len(s)] \in Whitespace
    THEN TrimRight(SubSeq(s, 1, Len(s) - 1))
    ELSE s

\* Trim of a decoder that forgets .trim()
Trim_None(s) == s

Trim(s) == TrimRight(TrimLeft(s))

\* index of the first "\n" of s, 0 when there is none
FirstNL(s) ==
    IF \E i \in 1..Len(s) : s[i] = NL
    THEN CHOOSE i \in 1..Len(s) : s[i] = NL /\ \A j \in 1..(i - 1) : s[j] # NL
    ELSE 0

\* buffer.split('\n')
RECURSIVE SplitLines(_)
SplitLines(s) ==
    LET i == FirstNL(s)
    IN IF i = 0
       THEN <<s>>
       ELSE <<SubSeq(s, 1, i - 1)>> \o SplitLines(SubSeq(s, i + 1, Len(s)))

\* lines.slice(i).join('\n'), i counted from 1
RECURSIVE JoinFrom(_, _)
JoinFrom(lines, i) ==
    IF i > Len(lines) THEN <<>>
    ELSE IF i = Len(lines) THEN lines[i]
    ELSE lines[i] \o <<NL>> \o JoinFrom(lines, i + 1)

(***************************************************************************)
(* JSON.parse, on the part of JSON the modelled payloads use: an object    *)
(* whose members are "key":"value" pairs of strings.  Any other text       *)
(* is a SyntaxError (ok = FALSE).  An object is the sequence of its        *)
(* <<key, value>> members in insertion order.                              *)
(***************************************************************************)
Quote == "\""

\* the characters of a string literal from position i on, up to its closing
\* quote; the escapes are those JSON.stringify writes for the modelled texts
RECURSIVE ScanChars(_, _, _)
ScanChars(s, i, acc) ==
    IF i > Len(s) \/ s[i] = NL THEN [ok |-> FALSE, val |-> <<>>, next |-> i]
    ELSE IF s[i] = Quote THEN [ok |-> TRUE, val |-> acc, next |-> i + 1]
    ELSE IF s[i] = "\\" THEN
         IF i + 1 > Len(s) THEN [ok |-> FALSE, val |-> <<>>, next |-> i]
         ELSE IF s[i + 1] \in {Quote, "\\"} THEN
              ScanChars(s, i + 2, Append(acc, s[i + 1]))
         ELSE IF s[i + 1] = "n" THEN ScanChars(s, i + 2, Append(acc, NL))
         ELSE [ok |-> FALSE, val |-> <<>>, next |-> i]
    ELSE ScanChars(s, i + 1, Append(acc, s[i]))

ScanString(s, i) ==
    IF i <= Len(s) /\ s[i] = Quote
    THEN ScanChars(s, i + 1, <<>>)
    ELSE [ok |-> FALSE, val |-> <<>>, next |-> i]

PutMember(obj, k, v) ==
    IF \E n \in 1..Len(obj) : obj[n][1] = k
    THEN [n \in 1..Len(obj) |-> IF obj[n][1] = k THEN <<k, v>> ELSE obj[n]]
    ELSE Append(obj, <<k, v>>)

RECURSIVE ParseMembers(_, _, _)
ParseMembers(s, i, obj) ==
    LET key == ScanString(s, i)
        val == ScanString(s, key.next + 1)
        bad == [ok |-> FALSE, value |-> <<>>]
    IN IF ~key.ok \/ key.next > Len(s) \/ s[key.next] # ":" THEN bad
       ELSE IF ~val.ok \/ val.next > Len(s) THEN bad
       ELSE IF s[val.next] = "," THEN
            ParseMembers(s, val.next + 1, PutMember(obj, key.val, val.val))
       ELSE IF s[val.next] = "}" /\ val.next = Len(s) THEN
            [ok |-> TRUE, value |-> PutMember(obj, key.val, val.val)]
       ELSE bad

JSONParse(s) ==
    IF s = <<"{", "}">> THEN [ok |-> TRUE, value |-> <<>>]
    ELSE IF Len(s) >= 2 /\ s[1] = "{" THEN ParseMembers(s, 2, <<>>)
    ELSE [ok |-> FALSE, value |-> <<>>]

(***************************************************************************)
(* JSON.stringify of such an object                                        *)
(***************************************************************************)
\* a string literal written without its escapes
EscapeString_None(str) == str

RECURSIVE EscapeString(_)
EscapeString(str) ==
    IF str = <<>> THEN <<>>
    ELSE (IF Head(str) \in {Quote, "\\"} THEN <<"\\", Head(str)>>
          ELSE IF Head(str) = NL THEN <<"\\", "n">>
          ELSE <<Head(str)>>) \o EscapeString(Tail(str))

StringLiteral(str) == <<Quote>> \o EscapeString(str) \o <<Quote>>

RECURSIVE StringifyMembers(_)
StringifyMembers(obj) ==
    IF obj = <<>> THEN <<>>
    ELSE StringLiteral(obj[1][1]) \o <<":">> \o StringLiteral(obj[1][2])
         \o (IF Len(obj) > 1 THEN <<",">> ELSE <<>>)
         \o StringifyMembers(Tail(obj))

\* the value undefined of a member (its one element is not a character)
Undefined == <<"undefined">>

\* JSON.stringify leaves out the members whose value is undefined
Defined(obj) == SelectSeq(obj, LAMBDA m : m[2] # Undefined)

JSONStringify(obj) == <<"{">> \o StringifyMembers(Defined(obj)) \o <<"}">>

(***************************************************************************)
(* BoltDiyClient.extractEvents                                             *)
(* currentEvent = {} is [type |-> <<>>, data |-> <<>>]: the only reads of  *)
(* its fields are the truthiness test, where undefined and '' agree, and   *)
(* the push that follows a passed test.                                    *)
(***************************************************************************)
EmptyEvent == [type |-> <<>>, data |-> <<>>]

\* ExtractLoop without the try/catch around JSON.parse: a payload that does
\* not parse ends the loop, what follows stays in the remainder
RECURSIVE ExtractLoop_StopOnBadPayload(_, _, _, _)
ExtractLoop_StopOnBadPayload(lines, i, currentEvent, events) ==
    IF i > Len(lines) THEN [complete |-> events, remainder |-> <<>>]
    ELSE LET line == lines[i]
         IN IF StartsWith(line, EventPrefix) THEN
                ExtractLoop_StopOnBadPayload(lines, i + 1,
                            [currentEvent EXCEPT !.type = Trim(Slice(line, 6))],
                            events)
            ELSE IF StartsWith(line, DataPrefix) THEN
                ExtractLoop_StopOnBadPayload(lines, i + 1,
                            [currentEvent EXCEPT !.data = Trim(Slice(line, 5))],
                            events)
            ELSE IF line = <<>> THEN
                LET parsed == JSONParse(currentEvent.data)
                    full == currentEvent.type # <<>> /\ currentEvent.data # <<>>
                IN IF full /\ ~parsed.ok
                   THEN [complete |-> events, remainder |-> JoinFrom(lines, i)]
                   ELSE ExtractLoop_StopOnBadPayload(lines, i + 1, EmptyEvent,
                               IF full
                               THEN Append(events, [type |-> currentEvent.type,
                                                    data |-> parsed.value])
                               ELSE events)
            ELSE [complete |-> events, remainder |-> JoinFrom(lines, i)]

RECURSIVE ExtractLoop(_, _, _, _)
ExtractLoop(lines, i, currentEvent, events) ==
    IF i > Len(lines) THEN [complete |-> events, remainder |-> <<>>]
    ELSE LET line == lines[i]
         IN IF StartsWith(line, EventPrefix) THEN
                ExtractLoop(lines, i + 1,
                            [currentEvent EXCEPT !.type = Trim(Slice(line, 6))],
                            events)
            ELSE IF StartsWith(line, DataPrefix) THEN
                ExtractLoop(lines, i + 1,
                            [currentEvent EXCEPT !.data = Trim(Slice(line, 5))],
                            events)
            ELSE IF line = <<>> THEN
                LET parsed == JSONParse(currentEvent.data)
                    emit == currentEvent.type # <<>> /\ currentEvent.data # <<>>
                            /\ parsed.ok
                IN ExtractLoop(lines, i + 1, EmptyEvent,
                               IF emit
                               THEN Append(events, [type |-> currentEvent.type,
                                                    data |-> parsed.value])
                               ELSE events)
            ELSE [complete |-> events, remainder |-> JoinFrom(lines, i)]

extractEvents(buffer) == ExtractLoop(SplitLines(buffer), 1, EmptyEvent, <<>>)

(***************************************************************************)
(* EventPublisher.  subscribers maps a task id to the connection ids of    *)
(* its inner Map in insertion order; controllers[c] is the state of the    *)
(* ReadableStream controller of connection c: "new" (not created yet),     *)
(* "open", or "closed" (closed or cancelled: enqueue and close throw).     *)
(***************************************************************************)
\* Map.delete that finds a key only at the head of the Map
RemoveConn_HeadOnly(seq, c) ==
    IF seq # <<>> /\ Head(seq) = c THEN Tail(seq) ELSE seq

RemoveConn(seq, c) == SelectSeq(seq, LAMBDA x : x # c)

RemoveKey(f, k) == [x \in DOMAIN f \ {k} |-> f[x]]

PutKey(f, k, v) == [x \in DOMAIN f \cup {k} |-> IF x = k THEN v ELSE f[x]]

subscribe(subs, taskId, connectionId) ==
    LET cur == IF taskId \in DOMAIN subs THEN subs[taskId] ELSE <<>>
    IN PutKey(subs, taskId,
              IF \E n \in 1..Len(cur) : cur[n] = connectionId
              THEN cur
              ELSE Append(cur, connectionId))

\* unsubscribe without the test of size === 0
unsubscribe_KeepEmpty(subs, taskId, connectionId) ==
    IF taskId \notin DOMAIN subs THEN subs
    ELSE PutKey(subs, taskId, RemoveConn(subs[taskId], connectionId))

\* unsubscribe that deletes the task's whole Map
unsubscribe_WholeTask(subs, taskId, connectionId) ==
    IF taskId \notin DOMAIN subs THEN subs ELSE RemoveKey(subs, taskId)

unsubscribe(subs, taskId, connectionId) ==
    IF taskId \notin DOMAIN subs THEN subs
    ELSE LET rest == RemoveConn(subs[taskId], connectionId)
         IN IF rest = <<>> THEN RemoveKey(subs, taskId)
            ELSE PutKey(subs, taskId, rest)

\* PublishLoop without the try/catch around enqueue: the first enqueue that
\* throws ends the loop
RECURSIVE PublishLoop_Unguarded(_, _, _, _, _)
PublishLoop_Unguarded(subs, ctl, taskId, entries, delivered) ==
    IF entries = <<>> THEN [subs |-> subs, delivered |-> delivered]
    ELSE LET c == Head(entries)
         IN IF ctl[c] = "open"
            THEN PublishLoop_Unguarded(subs, ctl, taskId, Tail(entries),
                                       Append(delivered, c))
            ELSE [subs |-> subs, delivered |-> delivered]

\* PublishLoop that leaves the loop after the first enqueue that succeeds
RECURSIVE PublishLoop_StopAfterFirst(_, _, _, _, _)
PublishLoop_StopAfterFirst(subs, ctl, taskId, entries, delivered) ==
    IF entries = <<>> \/ delivered # <<>>
    THEN [subs |-> subs, delivered |-> delivered]
    ELSE LET c == Head(entries)
         IN IF ctl[c] = "open"
            THEN PublishLoop_StopAfterFirst(subs, ctl, taskId, Tail(entries),
                                            Append(delivered, c))
            ELSE PublishLoop_StopAfterFirst(unsubscribe(subs, taskId, c), ctl,
                                            taskId, Tail(entries), delivered)

\* PublishLoop whose catch block drops the task's whole Map
RECURSIVE PublishLoop_DropAllOnFailure(_, _, _, _, _)
PublishLoop_DropAllOnFailure(subs, ctl, taskId, entries, delivered) ==
    IF entries = <<>> THEN [subs |-> subs, delivered |-> delivered]
    ELSE LET c == Head(entries)
         IN IF ctl[c] = "open"
            THEN PublishLoop_DropAllOnFailure(subs, ctl, taskId, Tail(entries),
                                              Append(delivered, c))
            ELSE PublishLoop_DropAllOnFailure(RemoveKey(subs, taskId), ctl,
                                              taskId, Tail(entries), delivered)

\* the for loop of publish over the entries of the task's Map: enqueue on
\* each controller, unsubscribe the connection whose enqueue throws
RECURSIVE PublishLoop(_, _, _, _, _)
PublishLoop(subs, ctl, taskId, entries, delivered) ==
    IF entries = <<>> THEN [subs |-> subs, delivered |-> delivered]
    ELSE LET c == Head(entries)
         IN IF ctl[c] = "open"
            THEN PublishLoop(subs, ctl, taskId, Tail(entries), Append(delivered, c))
            ELSE PublishLoop(unsubscribe(subs, taskId, c), ctl, taskId,
                             Tail(entries), delivered)

\* publish that takes the first task of the Map, whatever task is named
publish_FirstTask(subs, ctl, taskId) ==
    IF DOMAIN subs = {} THEN [subs |-> subs, delivered |-> <<>>]
    ELSE LET t == CHOOSE x \in DOMAIN subs : TRUE
         IN PublishLoop(subs, ctl, t, subs[t], <<>>)

publish(subs, ctl, taskId) ==
    IF taskId \notin DOMAIN subs THEN [subs |-> subs, delivered |-> <<>>]
    ELSE PublishLoop(subs, ctl, taskId, subs[taskId], <<>>)

TimestampKey ==
    <<"t", "i", "m", "e", "s", "t", "a", "m", "p">>

\* const message of publish: the text enqueued on every sink
Message(event) ==
    EventPrefix \o <<" ">> \o event.type \o <<NL>>
    \o DataPrefix \o <<" ">>
    \o JSONStringify(PutMember(event.data, TimestampKey, event.timestamp))
    \o <<NL, NL>>

close(subs, ctl, taskId) ==
    IF taskId \notin DOMAIN subs THEN [subs |-> subs, ctl |-> ctl]
    ELSE [subs |-> RemoveKey(subs, taskId),
          ctl |-> [c \in DOMAIN ctl |->
                      IF \E n \in 1..Len(subs[taskId]) : subs[taskId][n] = c
                      THEN "closed" ELSE ctl[c]]]

(***************************************************************************)
(* State                                                                   *)
(***************************************************************************)
VARIABLES
    pc,           \* where processTask is suspended
    retries,      \* processTask: let retries
    completed,    \* processTask: let completed
    result,       \* processTask: const result (of getImplementation)
    fileIdx,      \* processTask: index of the file whose upload is awaited
    caught,       \* processTask: message of the error the catch block holds
    store,        \* the task's row in the tasks table
    rpc,          \* where streamImplementation is suspended
    buffer,       \* streamImplementation: let buffer
    chunksRead,   \* chunks the upstream stream has delivered
    subscribers,  \* EventPublisher.subscribers
    controllers,  \* state of each connection's stream controller
    client,       \* each client connection as streamTaskUpdates sees it
    hist,         \* history: what has been called and published so far
    olog,         \* history: the Orchestrator's calls after the poll phase
    fetch,        \* one call of a BoltDiyClient request method
    sent,         \* history: what the upstream stream has delivered
    queue,        \* number of messages enqueued on each connection's sink
    sink,         \* history: the messages enqueued on each connection's sink
    req,          \* the task id named by each connection's stream request
    wire,         \* one event on its way through publish's format and extractEvents
    api           \* the API function: task row, rate-limit rows and the requests in flight

vars == <<pc, retries, completed, result, fileIdx, caught, store, rpc, buffer,
          chunksRead, subscribers, controllers, client, hist, olog,
          fetch, sent, queue, sink, req, wire, api>>

orchVars == <<pc, retries, completed, result, fileIdx, caught>>
readerVars == <<rpc, buffer, chunksRead>>
\* what the specification of processTask and its stream leaves alone: these
\* belong to the specifications of the request methods, of the decoder and
\* of the EventPublisher further down
sideVars == <<fetch, sent, queue, sink, req, wire, api>>

Task == "t1"

\* an optional value is a sequence of length 0 (undefined) or 1
NonTerminalStatuses == {"pending", "processing"}
Statuses == NonTerminalStatuses \cup {"completed", "failed"}
\* responses of the status endpoint that pass taskStatusSchema
StatusResponses ==
    {[status |-> "pending", progress |-> <<>>],
     [status |-> "processing", progress |-> <<50>>],
     [status |-> "completed", progress |-> <<100>>],
     [status |-> "failed", progress |-> <<>>]}

Implementations == {"implA"}
File(n) == [name |-> n, content |-> "text"]
FileList(n) == [i \in 1..n |-> File(i)]
ImplementationResponses ==
    [implementation : Implementations,
     files : {<<>>} \cup {<<FileList(n)>> : n \in 0..MaxFiles}]

NoResult == [implementation |-> "none", files |-> <<>>]
NoError == [code |-> "none", message |-> "none"]
Null == "null"

ClientErrors == {"request_failed", "validation_error"}

Event(type, data) == [type |-> type, data |-> data]

\* no BoltDiyClient request method is followed
NoFetch == [pc |-> "none"]

\* the specifications that do not look into the sinks record nothing of them
NoSinks == <<>>

\* the specifications with one task do not record the task of a request
NoReqs == <<>>

\* no request to the API function is followed
NoApi == [pc |-> "none"]

\* no event is followed through the wire format
NoWire == [pc |-> "none"]

\* processTask not called yet; the task is in the store as createTask left it
OrchInit ==
    /\ pc = "idle"
    /\ retries = 0
    /\ completed = FALSE
    /\ result = NoResult
    /\ fileIdx = 0
    /\ caught = "none"
    /\ store = [status |-> "processing", implementation |-> Null, error |-> NoError]
    /\ rpc = "idle"
    /\ buffer = <<>>
    /\ chunksRead = 0
    /\ olog = <<>>

\* the history at the start; rec tells whether the events published for the
\* task are logged (in the specifications whose claims read the log);
\* partial tells that a publish call has enqueued on one sink although the
\* enqueue on another sink failed
NoHistory(rec) ==
    [waits |-> 0, polls |-> 0, nonTerminal |-> 0, statusPubs |-> 0,
     completedAt |-> 0, failedAt |-> 0, implCalls |-> 0,
     failedStep |-> "none", termPub |-> 0, afterTerm |-> FALSE,
     rec |-> rec, log |-> <<>>, partial |-> FALSE]

\* new EventPublisher(): no subscriber; no client has connected
NoClients ==
    /\ subscribers = [t \in {} |-> <<>>]
    /\ controllers = [c \in Conns |-> "new"]
    /\ client = [c \in Conns |-> "none"]
    /\ queue = [c \in Conns |-> 0]

Init ==
    /\ OrchInit
    /\ NoClients
    /\ hist = NoHistory(FALSE)
    /\ fetch = NoFetch
    /\ sent = <<>>
    /\ api = NoApi
    /\ wire = NoWire
    /\ req = NoReqs
    /\ sink = NoSinks

(***************************************************************************)
(* History bookkeeping (not program state)                                 *)
(***************************************************************************)
\* a publish call for the task with event ev: termPub counts the
\* task.completion and task.error events published so far, afterTerm tells
\* that an event was published after one of them, log holds the events
\* published in call order (where it is kept)
NotePublish(h, ev) ==
    [h EXCEPT !.termPub = IF ev.type \in TerminalTypes THEN @ + 1 ELSE @,
              !.afterTerm = @ \/ h.termPub > 0,
              !.log = IF h.rec THEN Append(@, ev) ELSE @]

LogCall(op, arg) == [op |-> op, arg |-> arg]

(***************************************************************************)
(* TaskProcessor.processTask                                               *)
(***************************************************************************)
\* StatusEvent that carries the status the task had when it was started
StatusEvent_Stale(resp) ==
    Event(T_status, [status |-> "processing", progress |-> resp.progress])

StatusEvent(resp) ==
    Event(T_status, [status |-> resp.status, progress |-> resp.progress])
CompletionEvent(r) ==
    Event(T_completion, [implementation |-> r.implementation, files |-> r.files])
ErrorEvent(code, message) ==
    Event(T_error, [code |-> code, message |-> message])

\* FailedError with the error code of the timeout branch
FailedError_TimeoutCode ==
    [code |-> "timeout",
     message |-> "Task processing failed in bolt.diy"]

FailedError ==
    [code |-> "bolt_diy_processing_error",
     message |-> "Task processing failed in bolt.diy"]
TimeoutError ==
    [code |-> "timeout", message |-> "Task processing timed out"]
CrashedError(message) ==
    [code |-> "background_processing_error", message |-> message]

WriteCall(status, code, ok) ==
    LogCall("update", [status |-> status, code |-> code, ok |-> ok])

\* PublishThenClose with the two calls in the wrong order
CloseThenPublish(ev, log, nextPc) ==
    LET c == close(subscribers, controllers, Task)
        p == publish(c.subs, c.ctl, Task)
    IN /\ subscribers' = p.subs
       /\ controllers' = c.ctl
       /\ hist' = [NotePublish(hist, ev) EXCEPT
                       !.waits = IF nextPc = "sleep" THEN @ + 1 ELSE @]
       /\ olog' = log \o <<LogCall("close", "-"), LogCall("publish", ev)>>
       /\ pc' = nextPc

\* this.eventPublisher.publish(taskId, ev); this.eventPublisher.close(taskId)
\* and then the code up to the next await, at nextPc
PublishThenClose(ev, log, nextPc) ==
    LET p == publish(subscribers, controllers, Task)
        c == close(p.subs, controllers, Task)
    IN /\ subscribers' = c.subs
       /\ controllers' = c.ctl
       /\ hist' = [NotePublish(hist, ev) EXCEPT
                       !.waits = IF nextPc = "sleep" THEN @ + 1 ELSE @]
       /\ olog' = log \o <<LogCall("publish", ev), LogCall("close", "-")>>
       /\ pc' = nextPc

\* AfterIteration with a loop test that forgets !completed
AfterIteration_IgnoreCompleted(isCompleted, r) ==
    IF r < MAX_RETRIES THEN "sleep"
    ELSE IF ~isCompleted THEN "updateTimeout"
    ELSE "done"

\* AfterIteration with a loop test that allows one attempt too many
AfterIteration_OffByOne(isCompleted, r) ==
    IF ~isCompleted /\ r <= MAX_RETRIES THEN "sleep"
    ELSE IF ~isCompleted THEN "updateTimeout"
    ELSE "done"

\* where processTask goes after retries++ (line 116): the loop test of
\* line 27 and, when the loop is left, the timeout test of line 120
AfterIteration(isCompleted, r) ==
    IF ~isCompleted /\ r < MAX_RETRIES THEN "sleep"
    ELSE IF ~isCompleted THEN "updateTimeout"
    ELSE "done"

\* EnterCatch without the catch block: the error leaves processTask, whose
\* promise rejects
EnterCatch_Rethrow(message, step, log) ==
    /\ pc' = "rejected"
    /\ caught' = message
    /\ hist' = [hist EXCEPT !.failedStep = step]
    /\ olog' = log
    /\ UNCHANGED <<subscribers, controllers>>

\* an error thrown inside the try block of processTask reaches its catch
\* block, which logs it and starts the update of the task as failed
EnterCatch(message, step, log) ==
    /\ pc' = "updateCrashed"
    /\ caught' = message
    /\ hist' = [hist EXCEPT !.failedStep = step]
    /\ olog' = log
    /\ UNCHANGED <<subscribers, controllers>>

\* StartTask of a loop that polls first and waits afterwards
StartTask_PollFirst ==
    /\ pc = "idle"
    /\ rpc' = "opening"
    /\ completed' = FALSE
    /\ retries' = 0
    /\ pc' = "getTaskStatus"
    /\ hist' = [hist EXCEPT !.polls = @ + 1]
    /\ UNCHANGED <<result, fileIdx, caught, store, buffer, chunksRead,
                   subscribers, controllers, client, olog>>

\* processTask is called: streaming starts (up to its first await), the
\* loop is entered and the first wait begins
StartTask ==
    /\ pc = "idle"
    /\ rpc' = "opening"
    /\ completed' = FALSE
    /\ retries' = 0
    /\ pc' = "sleep"
    /\ hist' = [hist EXCEPT !.waits = @ + 1]
    /\ UNCHANGED <<result, fileIdx, caught, store, buffer, chunksRead,
                   subscribers, controllers, client, olog>>

\* SleepDone of a loop that polls only once streamImplementation has settled
SleepDone_AfterStream ==
    /\ pc = "sleep"
    /\ rpc \in {"ended", "failed"}
    /\ pc' = "getTaskStatus"
    /\ hist' = [hist EXCEPT !.polls = @ + 1]
    /\ UNCHANGED <<retries, completed, result, fileIdx, caught, store,
                   readerVars, subscribers, controllers, client, olog>>

\* the 10 second wait is over: getTaskStatus is called
SleepDone ==
    /\ pc = "sleep"
    /\ pc' = "getTaskStatus"
    /\ hist' = [hist EXCEPT !.polls = @ + 1]
    /\ UNCHANGED <<retries, completed, result, fileIdx, caught, store,
                   readerVars, subscribers, controllers, client, olog>>

\* getTaskStatus returns resp: the status event is published and the branch
\* on resp.status is taken up to its first await
PollReturn(resp) ==
    /\ pc = "getTaskStatus"
    /\ LET ev == StatusEvent(resp)
           p == publish(subscribers, controllers, Task)
           h == [NotePublish(hist, ev)
                    EXCEPT !.statusPubs = @ + 1]
       IN /\ subscribers' = p.subs
          /\ IF resp.status = "completed" THEN
                 /\ completed' = TRUE
                 /\ pc' = "getImplementation"
                 /\ retries' = retries
                 /\ hist' = [h EXCEPT !.completedAt = hist.polls,
                                      !.implCalls = @ + 1]
                 /\ olog' = Append(olog, LogCall("getImplementation", "-"))
             ELSE IF resp.status = "failed" THEN
                 /\ pc' = "updateFailed"
                 /\ hist' = [h EXCEPT !.failedAt = hist.polls]
                 /\ UNCHANGED <<completed, retries, olog>>
             ELSE
                 /\ retries' = retries + 1
                 /\ pc' = AfterIteration(completed, retries + 1)
                 /\ hist' = [h EXCEPT !.nonTerminal = @ + 1,
                                      !.waits = IF pc' = "sleep" THEN @ + 1 ELSE @]
                 /\ UNCHANGED <<completed, olog>>
    /\ UNCHANGED <<result, fileIdx, caught, store, readerVars, controllers, client>>

\* PollThrow of a loop that catches the error itself, counts the failed
\* poll as one attempt and goes on
PollThrow_CountAndPollAgain(message) ==
    /\ pc = "getTaskStatus"
    /\ retries' = retries + 1
    /\ pc' = AfterIteration(completed, retries + 1)
    /\ hist' = [hist EXCEPT !.failedStep = "getTaskStatus",
                            !.waits = IF pc' = "sleep" THEN @ + 1 ELSE @]
    /\ UNCHANGED <<completed, result, fileIdx, caught, store, readerVars,
                   subscribers, controllers, client, olog>>

\* getTaskStatus throws (request_failed after the retries, or a payload
\* that fails validation)
PollThrow(message) ==
    /\ pc = "getTaskStatus"
    /\ EnterCatch(message, "getTaskStatus", olog)
    /\ UNCHANGED <<retries, completed, result, fileIdx, store, readerVars, client>>

\* getImplementation returns r: the update to completed is started
GetImplReturn(r) ==
    /\ pc = "getImplementation"
    /\ result' = r
    /\ pc' = "updateCompleted"
    /\ UNCHANGED <<retries, completed, fileIdx, caught, store, readerVars,
                   subscribers, controllers, client, hist, olog>>

GetImplThrow(message) ==
    /\ pc = "getImplementation"
    /\ EnterCatch(message, "getImplementation", olog)
    /\ UNCHANGED <<retries, completed, result, fileIdx, store, readerVars, client>>

HasFiles(r) == r.files # <<>> /\ Len(r.files[1]) > 0

\* the end of the completed branch: completion event, close, retries++,
\* and the loop and the timeout test are left
FinishCompleted(log) ==
    /\ PublishThenClose(CompletionEvent(result), log,
                        AfterIteration(completed, retries + 1))
    /\ retries' = retries + 1

\* UpdateCompletedReturn without the test of updateError: the branch goes on
\* after a write that returned an error
UpdateCompletedReturn_IgnoreError(ok) ==
    /\ pc = "updateCompleted"
    /\ LET log == Append(olog, WriteCall("completed", "none", ok))
       IN /\ store' = IF ok THEN [store EXCEPT !.status = "completed",
                                               !.implementation = result.implementation]
                      ELSE store
          /\ caught' = caught
          /\ IF HasFiles(result)
             THEN /\ fileIdx' = 1
                  /\ pc' = "uploadFile"
                  /\ olog' = log
                  /\ UNCHANGED <<retries, subscribers, controllers, hist>>
             ELSE /\ FinishCompleted(log)
                  /\ UNCHANGED fileIdx
    /\ UNCHANGED <<completed, result, readerVars, client>>

\* the update to completed returns
UpdateCompletedReturn(ok) ==
    /\ pc = "updateCompleted"
    /\ LET log == Append(olog, WriteCall("completed", "none", ok))
       IN IF ~ok THEN
              /\ EnterCatch("Failed to update task", "update", log)
              /\ UNCHANGED <<store, retries, fileIdx>>
          ELSE
              /\ store' = [store EXCEPT !.status = "completed",
                                        !.implementation = result.implementation]
              /\ caught' = caught
              /\ IF HasFiles(result)
                 THEN /\ fileIdx' = 1
                      /\ pc' = "uploadFile"
                      /\ olog' = log
                      /\ UNCHANGED <<retries, subscribers, controllers, hist>>
                 ELSE /\ FinishCompleted(log)
                      /\ UNCHANGED fileIdx
    /\ UNCHANGED <<completed, result, readerVars, client>>

\* uploadFile of the file at fileIdx returns
UploadReturn ==
    /\ pc = "uploadFile"
    /\ LET log == Append(olog, LogCall("uploadFile",
                             [name |-> result.files[1][fileIdx].name, ok |-> TRUE]))
       IN IF fileIdx < Len(result.files[1])
          THEN /\ fileIdx' = fileIdx + 1
               /\ olog' = log
               /\ UNCHANGED <<pc, retries, subscribers, controllers, hist>>
          ELSE /\ FinishCompleted(log)
               /\ UNCHANGED fileIdx
    /\ UNCHANGED <<completed, result, caught, store, readerVars, client>>

\* UploadThrow of a loop that logs the failed upload and goes on with the
\* next file
UploadThrow_SkipFile ==
    /\ pc = "uploadFile"
    /\ LET log == Append(olog, LogCall("uploadFile",
                             [name |-> result.files[1][fileIdx].name, ok |-> FALSE]))
       IN IF fileIdx < Len(result.files[1])
          THEN /\ fileIdx' = fileIdx + 1
               /\ olog' = log
               /\ UNCHANGED <<pc, retries, subscribers, controllers, hist>>
          ELSE /\ FinishCompleted(log)
               /\ UNCHANGED fileIdx
    /\ UNCHANGED <<completed, result, caught, store, readerVars, client>>

\* uploadFile throws
UploadThrow ==
    /\ pc = "uploadFile"
    /\ EnterCatch("Failed to upload file", "uploadFile",
                  Append(olog, LogCall("uploadFile",
                             [name |-> result.files[1][fileIdx].name, ok |-> FALSE])))
    /\ UNCHANGED <<retries, completed, result, fileIdx, store, readerVars, client>>

\* the update to failed after the backend reported failed returns
UpdateFailedReturn(ok) ==
    /\ pc = "updateFailed"
    /\ LET log == Append(olog, WriteCall("failed", FailedError.code, ok))
       IN IF ~ok THEN
              /\ EnterCatch("Failed to update task", "update", log)
              /\ UNCHANGED <<store, retries, completed>>
          ELSE
              /\ store' = [store EXCEPT !.status = "failed", !.error = FailedError]
              /\ PublishThenClose(ErrorEvent(FailedError.code, FailedError.message),
                                  log, AfterIteration(TRUE, retries + 1))
              /\ completed' = TRUE
              /\ retries' = retries + 1
              /\ caught' = caught
    /\ UNCHANGED <<result, fileIdx, readerVars, client>>

\* the update to failed after the attempts ran out returns
UpdateTimeoutReturn(ok) ==
    /\ pc = "updateTimeout"
    /\ LET log == Append(olog, WriteCall("failed", TimeoutError.code, ok))
       IN IF ~ok THEN
              /\ EnterCatch("Failed to update task", "update", log)
              /\ UNCHANGED store
          ELSE
              /\ store' = [store EXCEPT !.status = "failed", !.error = TimeoutError]
              /\ PublishThenClose(ErrorEvent(TimeoutError.code, TimeoutError.message),
                                  log, "done")
              /\ caught' = caught
    /\ UNCHANGED <<retries, completed, result, fileIdx, readerVars, client>>

\* UpdateCrashedReturn that returns when its update returned an error,
\* without the error event and without close
UpdateCrashedReturn_ReturnOnError(ok) ==
    /\ pc = "updateCrashed"
    /\ LET e == CrashedError(caught)
       IN IF ok
          THEN /\ store' = [store EXCEPT !.status = "failed", !.error = e]
               /\ PublishThenClose(ErrorEvent(e.code, e.message),
                                   Append(olog, WriteCall("failed", e.code, ok)), "done")
          ELSE /\ pc' = "done"
               /\ olog' = Append(olog, WriteCall("failed", e.code, ok))
               /\ UNCHANGED <<store, subscribers, controllers, hist>>
    /\ UNCHANGED <<retries, completed, result, fileIdx, caught, readerVars, client>>

\* the catch block: its update returns (an error of it is only logged), the
\* error event is published and the stream closed
UpdateCrashedReturn(ok) ==
    /\ pc = "updateCrashed"
    /\ LET e == CrashedError(caught)
       IN /\ store' = IF ok THEN [store EXCEPT !.status = "failed", !.error = e]
                      ELSE store
          /\ PublishThenClose(ErrorEvent(e.code, e.message),
                              Append(olog, WriteCall("failed", e.code, ok)), "done")
    /\ UNCHANGED <<retries, completed, result, fileIdx, caught, readerVars, client>>

(***************************************************************************)
(* BoltDiyClient.streamImplementation                                      *)
(***************************************************************************)
StreamErrorEvent == Event(T_streamError, [message |-> "Stream error"])

\* the for loop over events.complete: one publish per decoded event
RECURSIVE PublishAll(_, _, _, _)
PublishAll(subs, ctl, h, events) ==
    IF events = <<>> THEN [subs |-> subs, hist |-> h]
    ELSE LET p == publish(subs, ctl, Task)
         IN PublishAll(p.subs, ctl, NotePublish(h, Head(events)),
                       Tail(events))

\* StreamFail of a catch block that only rethrows
StreamFail_Silent ==
    /\ rpc' = "failed"
    /\ UNCHANGED <<subscribers, hist, buffer, chunksRead>>

\* the catch block of streamImplementation: one error event, then rethrow,
\* which processTask's .catch only logs
StreamFail ==
    LET p == publish(subscribers, controllers, Task)
    IN /\ subscribers' = p.subs
       /\ hist' = NotePublish(hist, StreamErrorEvent)
       /\ rpc' = "failed"
       /\ UNCHANGED <<buffer, chunksRead>>

\* fetch of the stream resolves with a 2xx response that has a body
StreamOpenOk ==
    /\ rpc = "opening"
    /\ rpc' = "reading"
    /\ UNCHANGED <<orchVars, store, buffer, chunksRead, subscribers, controllers,
                   client, hist, olog>>

\* fetch of the stream rejects, or resolves with a non-2xx response
StreamOpenFail ==
    /\ rpc = "opening"
    /\ StreamFail
    /\ UNCHANGED <<orchVars, store, controllers, client, olog>>

\* one pass of the read loop: reader.read() resolves with a chunk
ReadChunk(chunk) ==
    /\ rpc = "reading"
    /\ LET events == extractEvents(buffer \o chunk)
           r == PublishAll(subscribers, controllers, hist, events.complete)
       IN /\ buffer' = events.remainder
          /\ subscribers' = r.subs
          /\ hist' = r.hist
    /\ chunksRead' = chunksRead + 1
    /\ UNCHANGED <<orchVars, store, rpc, controllers, client, olog>>

\* reader.read() resolves with one of the chunks of the backend's stream
StreamRead(chunk) ==
    /\ chunksRead < MaxChunks
    /\ ReadChunk(chunk)

\* reader.read() resolves with done
StreamEnd ==
    /\ rpc = "reading"
    /\ rpc' = "ended"
    /\ UNCHANGED <<orchVars, store, buffer, chunksRead, subscribers, controllers,
                   client, hist, olog>>

\* reader.read() rejects (connection lost, or the stream's timeout)
StreamReadError ==
    /\ rpc = "reading"
    /\ StreamFail
    /\ UNCHANGED <<orchVars, store, controllers, client, olog>>

(***************************************************************************)
(* streamTaskUpdates and its clients                                       *)
(***************************************************************************)
ConnectedEvent == Event(T_connected, [taskId |-> Task])

\* a client opens the task's stream: start(controller) subscribes the
\* connection and publishes the connected event
\* (connection ids are fresh random UUIDs: they are numbered here in the
\* order in which the connections attach)
Attach(c) ==
    /\ client[c] = "none"
    /\ \A d \in Conns : d < c => client[d] # "none"
    /\ LET ctl == [controllers EXCEPT ![c] = "open"]
           subs == subscribe(subscribers, Task, c)
           p == publish(subs, ctl, Task)
       IN /\ controllers' = ctl
          /\ subscribers' = p.subs
          /\ hist' = NotePublish(hist, ConnectedEvent)
    /\ client' = [client EXCEPT ![c] = "attached"]
    /\ UNCHANGED <<orchVars, store, readerVars, olog>>

\* the client goes away: its response stream is cancelled
ClientDisconnect(c) ==
    /\ client[c] = "attached"
    /\ client' = [client EXCEPT ![c] = "gone"]
    /\ controllers' = [controllers EXCEPT ![c] = "closed"]
    /\ UNCHANGED <<orchVars, store, readerVars, subscribers, hist, olog>>

\* the abort listener of the request runs
AbortListener(c) ==
    /\ client[c] = "gone"
    /\ client' = [client EXCEPT ![c] = "aborted"]
    /\ subscribers' = unsubscribe(subscribers, Task, c)
    /\ UNCHANGED <<orchVars, store, readerVars, controllers, hist, olog>>

(***************************************************************************)
(* Specification                                                           *)
(***************************************************************************)
Next ==
    \/ StartTask /\ UNCHANGED sideVars
    \/ SleepDone /\ UNCHANGED sideVars
    \/ \E resp \in StatusResponses : PollReturn(resp) /\ UNCHANGED sideVars
    \/ \E m \in ClientErrors : PollThrow(m) /\ UNCHANGED sideVars
    \/ \E r \in ImplementationResponses : GetImplReturn(r) /\ UNCHANGED sideVars
    \/ \E m \in ClientErrors : GetImplThrow(m) /\ UNCHANGED sideVars
    \/ \E ok \in BOOLEAN : UpdateCompletedReturn(ok) /\ UNCHANGED sideVars
    \/ UploadReturn /\ UNCHANGED sideVars
    \/ UploadThrow /\ UNCHANGED sideVars
    \/ \E ok \in BOOLEAN : UpdateFailedReturn(ok) /\ UNCHANGED sideVars
    \/ \E ok \in BOOLEAN : UpdateTimeoutReturn(ok) /\ UNCHANGED sideVars
    \/ \E ok \in BOOLEAN : UpdateCrashedReturn(ok) /\ UNCHANGED sideVars
    \/ StreamOpenOk /\ UNCHANGED sideVars
    \/ StreamOpenFail /\ UNCHANGED sideVars
    \/ \E chunk \in Chunks : StreamRead(chunk) /\ UNCHANGED sideVars
    \/ StreamEnd /\ UNCHANGED sideVars
    \/ StreamReadError /\ UNCHANGED sideVars
    \/ \E c \in Conns : Attach(c) /\ UNCHANGED sideVars
    \/ \E c \in Conns : ClientDisconnect(c) /\ UNCHANGED sideVars
    \/ \E c \in Conns : AbortListener(c) /\ UNCHANGED sideVars

Spec == Init /\ [][Next]_vars

(***************************************************************************)
(* BoltDiyClient: constructor, fetchWithRetry and the request methods      *)
(* submitTask, getTaskStatus, getImplementation.  fetch follows one call   *)
(* of a request method on a client constructed with config.retries = cfg   *)
(* (<<>> when the configuration gives none):                               *)
(*   retries   this.retries                                                *)
(*   left      the parameter retries of the running fetchWithRetry call    *)
(*   attempts  calls of fetch made so far; okAt: the one that returned 2xx *)
(*   delays    waits of retryDelay started so far                          *)
(*   last      how the last attempt, or the decoding of its payload, failed*)
(*   error     the error the method has thrown                             *)
(***************************************************************************)
Methods == {"submitTask", "getTaskStatus", "getImplementation"}
ConfigRetries == {<<>>} \cup {<<n>> : n \in 0..MaxConfigRetries}
\* failures of one attempt: fetch rejects (network error), the timeout
\* signal aborts it, or the response has a non-2xx status
AttemptFailures == {"network", "timeout", "status"}
NoFetchError == [name |-> "none", code |-> "none", cause |-> "none"]

\* config.retries || 3
ConstructRetries(cfg) ==
    IF cfg = <<>> \/ cfg[1] = 0 THEN DEFAULT_RETRIES ELSE cfg[1]

NewClient(cfg) ==
    [pc |-> "idle", cfg |-> cfg, retries |-> ConstructRetries(cfg),
     method |-> "none", left |-> 0, attempts |-> 0, okAt |-> 0, delays |-> 0,
     last |-> "none", error |-> NoFetchError]

\* new BoltDiyError('request_failed', 'Failed to communicate ...: ' +
\* error.message, {originalError: error}): cause is the error wrapped
RequestFailed(cause) ==
    [name |-> "BoltDiyError", code |-> "request_failed", cause |-> cause]

FetchInit ==
    /\ OrchInit
    /\ NoClients
    /\ hist = NoHistory(FALSE)
    /\ fetch \in {NewClient(cfg) : cfg \in ConfigRetries}
    /\ sent = <<>>
    /\ api = NoApi
    /\ wire = NoWire
    /\ req = NoReqs
    /\ sink = NoSinks

nonFetchVars == <<orchVars, store, readerVars, subscribers, controllers, client,
                  hist, olog, sent, queue,
                  sink,
                  req,
                  wire,
                  api>>

\* a request method is called: fetchWithRetry(url, options) with the
\* default retries = this.retries makes its first attempt
CallMethod(m) ==
    /\ fetch.pc = "idle"
    /\ fetch' = [fetch EXCEPT !.pc = "fetching", !.method = m,
                              !.left = fetch.retries, !.attempts = 1]
    /\ UNCHANGED nonFetchVars

\* the attempt returns a 2xx response: fetchWithRetry returns it and the
\* method awaits response.json()
AttemptOk ==
    /\ fetch.pc = "fetching"
    /\ fetch' = [fetch EXCEPT !.pc = "json", !.okAt = fetch.attempts]
    /\ UNCHANGED nonFetchVars

\* AttemptFails that throws the error of the attempt as it is, unwrapped
AttemptFails_PlainError(kind) ==
    /\ fetch.pc = "fetching"
    /\ fetch' = IF fetch.left > 0
                THEN [fetch EXCEPT !.pc = "delay", !.last = kind,
                                   !.delays = @ + 1]
                ELSE [fetch EXCEPT !.pc = "failed", !.last = kind,
                                   !.error = [name |-> "Error", code |-> "none",
                                              cause |-> "none"]]
    /\ UNCHANGED nonFetchVars

\* AttemptFails that waits retryDelay before it throws, too
AttemptFails_DelayAfterLast(kind) ==
    /\ fetch.pc = "fetching"
    /\ fetch' = IF fetch.left > 0
                THEN [fetch EXCEPT !.pc = "delay", !.last = kind,
                                   !.delays = @ + 1]
                ELSE [fetch EXCEPT !.pc = "failed", !.last = kind,
                                   !.delays = @ + 1,
                                   !.error = RequestFailed(kind)]
    /\ UNCHANGED nonFetchVars

\* the attempt fails: the catch block waits retryDelay when retries > 0 and
\* throws request_failed otherwise
AttemptFails(kind) ==
    /\ fetch.pc = "fetching"
    /\ fetch' = IF fetch.left > 0
                THEN [fetch EXCEPT !.pc = "delay", !.last = kind,
                                   !.delays = @ + 1]
                ELSE [fetch EXCEPT !.pc = "failed", !.last = kind,
                                   !.error = RequestFailed(kind)]
    /\ UNCHANGED nonFetchVars

\* the delay is over: fetchWithRetry(url, options, retries - 1)
DelayDone ==
    /\ fetch.pc = "delay"
    /\ fetch' = [fetch EXCEPT !.pc = "fetching", !.left = @ - 1,
                              !.attempts = @ + 1]
    /\ UNCHANGED nonFetchVars

\* response.json() resolves and the schema accepts the payload
PayloadOk ==
    /\ fetch.pc = "json"
    /\ fetch' = [fetch EXCEPT !.pc = "returned"]
    /\ UNCHANGED nonFetchVars

\* response.json() rejects (the body is no JSON: SyntaxError), or the
\* schema's parse throws (ZodError); the method has no catch
PayloadFails(name) ==
    /\ fetch.pc = "json"
    /\ fetch' = [fetch EXCEPT !.pc = "failed",
                              !.last = IF name = "ZodError" THEN "schema" ELSE "json",
                              !.error = [name |-> name, code |-> "none",
                                         cause |-> "none"]]
    /\ UNCHANGED nonFetchVars

FetchNext ==
    \/ \E m \in Methods : CallMethod(m)
    \/ AttemptOk
    \/ \E kind \in AttemptFailures : AttemptFails(kind)
    \/ DelayDone
    \/ PayloadOk
    \/ \E name \in {"SyntaxError", "ZodError"} : PayloadFails(name)

FetchSpec == FetchInit /\ [][FetchNext]_vars

(***************************************************************************)
(* The upstream event stream of streamImplementation.  The backend sends   *)
(* blocks "event: <type>\ndata: <payload>\n\n"; every chunk the reader     *)
(* receives here is a whole number of blocks.  A block is described by its *)
(* type, the text of its payload, whether that text is valid JSON, and the *)
(* value it then denotes.                                                  *)
(***************************************************************************)
PayloadEmpty ==
    [text |-> <<"{", "}">>, good |-> TRUE, value |-> <<>>]
PayloadContent ==
    [text |-> <<"{", "\"", "c", "o", "n", "t", "e", "n", "t", "\"", ":", "\"", "x", "\"", "}">>,
     good |-> TRUE,
     value |-> << <<(<<"c", "o", "n", "t", "e", "n", "t">>), (<<"x">>)>> >>]
\* a payload cut short: JSON.parse throws
PayloadBad ==
    [text |-> <<"{", "\"", "c", "o", "n", "t", "e", "n", "t", "\"", ":">>,
     good |-> FALSE, value |-> <<>>]
Payloads == {PayloadEmpty, PayloadContent, PayloadBad}

UpstreamBlocks ==
    {[type |-> t, text |-> p.text, good |-> p.good, value |-> p.value] :
        t \in {T_status, T_completion}, p \in Payloads}

\* the text of a block on the wire
Render(b) ==
    EventPrefix \o <<" ">> \o b.type \o <<NL>>
    \o DataPrefix \o <<" ">> \o b.text \o <<NL, NL>>

RECURSIVE RenderAll(_)
RenderAll(blocks) ==
    IF blocks = <<>> THEN <<>> ELSE Render(Head(blocks)) \o RenderAll(Tail(blocks))

\* the sequences of 1..n blocks
RECURSIVE BlockSeqs(_)
BlockSeqs(n) ==
    IF n = 0 THEN {}
    ELSE {<<b>> : b \in UpstreamBlocks}
         \cup {Append(q, b) : q \in BlockSeqs(n - 1), b \in UpstreamBlocks}

StreamInit ==
    /\ OrchInit
    /\ NoClients
    /\ hist = NoHistory(TRUE)
    /\ fetch = NoFetch
    /\ sent = <<>>
    /\ api = NoApi
    /\ wire = NoWire
    /\ req = NoReqs
    /\ sink = NoSinks

\* reader.read() resolves with a chunk that holds the next blocks
UpstreamDelivers(blocks) ==
    /\ Len(sent) + Len(blocks) <= MaxBlocks
    /\ ReadChunk(RenderAll(blocks))
    /\ sent' = sent \o blocks
    /\ UNCHANGED <<fetch, queue, api, wire, req, sink>>

StreamNext ==
    \/ StartTask /\ UNCHANGED sideVars
    \/ StreamOpenOk /\ UNCHANGED sideVars
    \/ StreamOpenFail /\ UNCHANGED sideVars
    \/ \E blocks \in BlockSeqs(MaxBlocks) : UpstreamDelivers(blocks)
    \/ StreamEnd /\ UNCHANGED sideVars
    \/ StreamReadError /\ UNCHANGED sideVars

StreamSpec == StreamInit /\ [][StreamNext]_vars

(***************************************************************************)
(* The same stream delivered in chunks of any sizes.  The backend's stream *)
(* is a first line, absent or one that is neither an event: line, a data:  *)
(* line nor blank, followed by up to MaxStreamBlocks well-formed blocks;   *)
(* sent holds that stream and the number of its characters delivered so    *)
(* far.  Every read of the loop receives the next characters, as many as   *)
(* the transport happens to hand over; the stream arrives in at most       *)
(* MaxSplits + 1 chunks.                                                   *)
(***************************************************************************)
MaxStreamBlocks == 2
MaxSplits == 2

ShortTypes == {<<"a">>, <<"b">>}
ShortBlocks ==
    {[type |-> t, text |-> p.text, good |-> p.good, value |-> p.value] :
        t \in ShortTypes, p \in {PayloadEmpty}}

\* a comment line of the event stream format
CommentLine == <<":", NL>>

RECURSIVE ShortBlockSeqs(_)
ShortBlockSeqs(n) ==
    IF n = 0 THEN {}
    ELSE {<<b>> : b \in ShortBlocks}
         \cup {Append(q, b) : q \in ShortBlockSeqs(n - 1), b \in ShortBlocks}

StreamText(u) == u.first \o RenderAll(u.blocks)

ChunkInit ==
    /\ OrchInit
    /\ NoClients
    /\ hist = NoHistory(TRUE)
    /\ fetch = NoFetch
    /\ sent \in [first : {<<>>, CommentLine},
                 blocks : ShortBlockSeqs(MaxStreamBlocks), at : {0}]
    /\ api = NoApi
    /\ wire = NoWire
    /\ req = NoReqs
    /\ sink = NoSinks

\* reader.read() resolves with the next n characters of the stream
ChunkDelivers(n) ==
    /\ sent.at + n <= Len(StreamText(sent))
    /\ chunksRead < MaxSplits \/ sent.at + n = Len(StreamText(sent))
    /\ ReadChunk(SubSeq(StreamText(sent), sent.at + 1, sent.at + n))
    /\ sent' = [sent EXCEPT !.at = @ + n]
    /\ UNCHANGED <<fetch, queue, api, wire, req, sink>>

\* reader.read() resolves with done once the whole stream has been read
ChunkEnd ==
    /\ sent.at = Len(StreamText(sent))
    /\ StreamEnd
    /\ UNCHANGED sideVars

ChunkNext ==
    \/ StartTask /\ UNCHANGED sideVars
    \/ StreamOpenOk /\ UNCHANGED sideVars
    \/ \E n \in 1..Len(StreamText(sent)) : ChunkDelivers(n)
    \/ ChunkEnd

ChunkSpec == ChunkInit /\ [][ChunkNext]_vars

(***************************************************************************)
(* processTask alone, with results of getImplementation that hold up to    *)
(* MaxFiles + 1 files, so that a failed upload can have files after it     *)
(***************************************************************************)
UploadResponses ==
    [implementation : Implementations,
     files : {<<>>} \cup {<<FileList(n)>> : n \in 0..(MaxFiles + 1)}]

UploadNext ==
    \/ StartTask /\ UNCHANGED sideVars
    \/ SleepDone /\ UNCHANGED sideVars
    \/ \E resp \in StatusResponses : PollReturn(resp) /\ UNCHANGED sideVars
    \/ \E m \in ClientErrors : PollThrow(m) /\ UNCHANGED sideVars
    \/ \E r \in UploadResponses : GetImplReturn(r) /\ UNCHANGED sideVars
    \/ \E m \in ClientErrors : GetImplThrow(m) /\ UNCHANGED sideVars
    \/ \E ok \in BOOLEAN : UpdateCompletedReturn(ok) /\ UNCHANGED sideVars
    \/ UploadReturn /\ UNCHANGED sideVars
    \/ UploadThrow /\ UNCHANGED sideVars
    \/ \E ok \in BOOLEAN : UpdateFailedReturn(ok) /\ UNCHANGED sideVars
    \/ \E ok \in BOOLEAN : UpdateTimeoutReturn(ok) /\ UNCHANGED sideVars
    \/ \E ok \in BOOLEAN : UpdateCrashedReturn(ok) /\ UNCHANGED sideVars

UploadSpec == Init /\ [][UploadNext]_vars

(***************************************************************************)
(* The EventPublisher taken alone, under any sequence of calls of          *)
(* subscribe, unsubscribe, publish and close for two task ids, with sinks  *)
(* whose stream may be cancelled at any time (enqueue then throws).        *)
(* queue[c] counts the messages enqueued on the sink of connection c.      *)
(***************************************************************************)
MuxTasks == {"t1", "t2"}
Sinks == 1..MaxSinks

Registered(subs, t) ==
    IF t \in DOMAIN subs THEN subs[t] ELSE <<>>
SinksOf(subs, t) ==
    {Registered(subs, t)[n] : n \in 1..Len(Registered(subs, t))}

MuxInit ==
    /\ OrchInit
    /\ subscribers = [t \in {} |-> <<>>]
    /\ controllers = [c \in Sinks |-> "open"]
    /\ client = [c \in Conns |-> "none"]
    /\ queue = [c \in Sinks |-> 0]
    /\ hist = NoHistory(FALSE)
    /\ fetch = NoFetch
    /\ sent = <<>>
    /\ api = NoApi
    /\ wire = NoWire
    /\ req = NoReqs
    /\ sink = NoSinks

nonMuxVars == <<orchVars, store, readerVars, client, olog, fetch, sent, sink,
                req, wire, api>>

MuxSubscribe(t, c) ==
    /\ subscribers' = subscribe(subscribers, t, c)
    /\ UNCHANGED <<controllers, queue, hist, nonMuxVars>>

MuxUnsubscribe(t, c) ==
    /\ subscribers' = unsubscribe(subscribers, t, c)
    /\ UNCHANGED <<controllers, queue, hist, nonMuxVars>>

MuxPublish(t) ==
    /\ \A c \in Sinks : queue[c] < MaxPublishes
    /\ LET p == publish(subscribers, controllers, t)
       IN /\ subscribers' = p.subs
          /\ queue' = [c \in Sinks |->
                          IF \E n \in 1..Len(p.delivered) : p.delivered[n] = c
                          THEN queue[c] + 1 ELSE queue[c]]
          /\ hist' = [hist EXCEPT !.partial =
                          @ \/ (p.delivered # <<>>
                                /\ \E d \in SinksOf(subscribers, t) :
                                      controllers[d] # "open")]
    /\ UNCHANGED <<controllers, nonMuxVars>>

MuxClose(t) ==
    /\ LET c == close(subscribers, controllers, t)
       IN /\ subscribers' = c.subs
          /\ controllers' = c.ctl
    /\ UNCHANGED <<queue, hist, nonMuxVars>>

\* the client of a sink goes away: its stream is cancelled
SinkCancelled(c) ==
    /\ controllers[c] = "open"
    /\ controllers' = [controllers EXCEPT ![c] = "closed"]
    /\ UNCHANGED <<subscribers, queue, hist, nonMuxVars>>

MuxNext ==
    \/ \E t \in MuxTasks, c \in Sinks : MuxSubscribe(t, c)
    \/ \E t \in MuxTasks, c \in Sinks : MuxUnsubscribe(t, c)
    \/ \E t \in MuxTasks : MuxPublish(t)
    \/ \E t \in MuxTasks : MuxClose(t)
    \/ \E c \in Sinks : SinkCancelled(c)

MuxSpec == MuxInit /\ [][MuxNext]_vars

(***************************************************************************)
(* processTask with its stream reader and the clients of the task, where   *)
(* processTask itself always goes on: every call it awaits (the wait of    *)
(* the poll loop, getTaskStatus, getImplementation, the store updates,     *)
(* uploadFile) returns or fails, and the event loop then runs the code up  *)
(* to the next await.  Nothing is assumed of the upstream stream, which    *)
(* may stay open without sending, nor of the clients, which attach and     *)
(* disconnect when they like; an abort listener whose signal has fired is  *)
(* run.                                                                    *)
(***************************************************************************)
ProcessTaskStep ==
    \/ StartTask
    \/ SleepDone
    \/ \E resp \in StatusResponses : PollReturn(resp)
    \/ \E m \in ClientErrors : PollThrow(m)
    \/ \E r \in ImplementationResponses : GetImplReturn(r)
    \/ \E m \in ClientErrors : GetImplThrow(m)
    \/ \E ok \in BOOLEAN : UpdateCompletedReturn(ok)
    \/ UploadReturn
    \/ UploadThrow
    \/ \E ok \in BOOLEAN : UpdateFailedReturn(ok)
    \/ \E ok \in BOOLEAN : UpdateTimeoutReturn(ok)
    \/ \E ok \in BOOLEAN : UpdateCrashedReturn(ok)

ServeSpec ==
    /\ Init
    /\ [][Next]_vars
    /\ WF_vars(ProcessTaskStep /\ UNCHANGED sideVars)
    /\ WF_vars(\E c \in Conns : AbortListener(c) /\ UNCHANGED sideVars)

(***************************************************************************)
(* processTask with the requests of its BoltDiyClient spelled out: the     *)
(* getTaskStatus and getImplementation calls it awaits are runs of         *)
(* fetchWithRetry followed by response.json() and the schema's parse, and  *)
(* processTask goes on when the method has returned or thrown.  fetch      *)
(* holds the request in progress.  Every attempt, delay, store update and  *)
(* upload returns or fails; nothing is assumed of the upstream stream,     *)
(* which may stay open without sending.  No client attaches.               *)
(***************************************************************************)
RunInit ==
    /\ OrchInit
    /\ NoClients
    /\ hist = NoHistory(FALSE)
    /\ fetch \in {NewClient(cfg) : cfg \in ConfigRetries}
    /\ sent = <<>>
    /\ api = NoApi
    /\ wire = NoWire
    /\ req = NoReqs
    /\ sink = NoSinks

nonRunVars == <<sent, queue, sink, req, wire, api>>

\* the method m is called on the client: fetchWithRetry(url, options) with
\* retries = this.retries makes its first attempt
Calling(f, m) ==
    [NewClient(f.cfg) EXCEPT !.pc = "fetching", !.method = m,
                             !.left = f.retries, !.attempts = 1]

\* the error a failed method throws, as processTask sees its code
Thrown(f) ==
    IF f.error.code = "request_failed" THEN "request_failed"
    ELSE "validation_error"

\* RunSleepDone of a loop that polls only once streamImplementation has
\* settled
RunSleepDone_AfterStream ==
    /\ SleepDone_AfterStream
    /\ fetch' = Calling(fetch, "getTaskStatus")
    /\ UNCHANGED nonRunVars

\* the wait is over and getTaskStatus is called
RunSleepDone ==
    /\ SleepDone
    /\ fetch' = Calling(fetch, "getTaskStatus")
    /\ UNCHANGED nonRunVars

\* getTaskStatus has returned resp; on completed, getImplementation is called
RunPollReturn(resp) ==
    /\ fetch.pc = "returned"
    /\ fetch.method = "getTaskStatus"
    /\ PollReturn(resp)
    /\ fetch' = IF resp.status = "completed"
                THEN Calling(fetch, "getImplementation")
                ELSE NewClient(fetch.cfg)
    /\ UNCHANGED nonRunVars

\* getTaskStatus has thrown
RunPollThrow ==
    /\ fetch.pc = "failed"
    /\ fetch.method = "getTaskStatus"
    /\ PollThrow(Thrown(fetch))
    /\ fetch' = NewClient(fetch.cfg)
    /\ UNCHANGED nonRunVars

\* getImplementation has returned r
RunGetImplReturn(r) ==
    /\ fetch.pc = "returned"
    /\ fetch.method = "getImplementation"
    /\ GetImplReturn(r)
    /\ fetch' = NewClient(fetch.cfg)
    /\ UNCHANGED nonRunVars

\* getImplementation has thrown
RunGetImplThrow ==
    /\ fetch.pc = "failed"
    /\ fetch.method = "getImplementation"
    /\ GetImplThrow(Thrown(fetch))
    /\ fetch' = NewClient(fetch.cfg)
    /\ UNCHANGED nonRunVars

\* the steps of processTask and of the requests it awaits
RunStep ==
    \/ StartTask /\ UNCHANGED sideVars
    \/ RunSleepDone
    \/ AttemptOk
    \/ AttemptFails("network")
    \/ DelayDone
    \/ PayloadOk
    \/ \E name \in {"SyntaxError", "ZodError"} : PayloadFails(name)
    \/ \E resp \in StatusResponses : RunPollReturn(resp)
    \/ RunPollThrow
    \/ \E r \in ImplementationResponses : RunGetImplReturn(r)
    \/ RunGetImplThrow
    \/ \E ok \in BOOLEAN : UpdateCompletedReturn(ok) /\ UNCHANGED sideVars
    \/ UploadReturn /\ UNCHANGED sideVars
    \/ UploadThrow /\ UNCHANGED sideVars
    \/ \E ok \in BOOLEAN : UpdateFailedReturn(ok) /\ UNCHANGED sideVars
    \/ \E ok \in BOOLEAN : UpdateTimeoutReturn(ok) /\ UNCHANGED sideVars
    \/ \E ok \in BOOLEAN : UpdateCrashedReturn(ok) /\ UNCHANGED sideVars

RunNext ==
    \/ RunStep
    \/ StreamOpenOk /\ UNCHANGED sideVars
    \/ StreamOpenFail /\ UNCHANGED sideVars
    \/ \E chunk \in Chunks : StreamRead(chunk) /\ UNCHANGED sideVars
    \/ StreamEnd /\ UNCHANGED sideVars
    \/ StreamReadError /\ UNCHANGED sideVars

RunSpec == RunInit /\ [][RunNext]_vars /\ WF_vars(RunStep)

(***************************************************************************)
(* One EventPublisher shared by the runs of two tasks and by the stream    *)
(* connections of their clients.  Every connection is made by one request  *)
(* of streamTaskUpdates for one task (req[c]) and has a sink of its own;   *)
(* client[c] follows the connection as in the main specification.          *)
(* sink[c] is history: for each message enqueued on the sink of c, the     *)
(* task it was published for, its type, and the connection whose start     *)
(* published it (0 for the events of processTask).  hist is the last call  *)
(* of the EventPublisher and the task it named.                            *)
(***************************************************************************)
IsoInit ==
    /\ OrchInit
    /\ subscribers = [t \in {} |-> <<>>]
    /\ controllers = [c \in Sinks |-> "new"]
    /\ client = [c \in Sinks |-> "none"]
    /\ queue = [c \in Sinks |-> 0]
    /\ hist = [op |-> "none", task |-> "none"]
    /\ fetch = NoFetch
    /\ sent = <<>>
    /\ api = NoApi
    /\ wire = NoWire
    /\ req = [c \in Sinks |-> "none"]
    /\ sink = [c \in Sinks |-> <<>>]

nonIsoVars == <<orchVars, store, readerVars, olog, fetch, sent, queue, wire, api>>

\* controller.enqueue on the sinks a publish call delivered to
IsoEnqueue(sk, delivered, msg) ==
    [c \in DOMAIN sk |->
        IF \E n \in 1..Len(delivered) : delivered[n] = c
        THEN Append(sk[c], msg) ELSE sk[c]]

\* the sinks of a task are followed up to MaxPublishes messages
IsoRoom(t) == \A c \in Sinks : req[c] = t => Len(sink[c]) < MaxPublishes

\* start(controller) of the stream of a request for task t: subscribe under
\* a fresh connection id, publish the connected event for t
IsoStart(c, t) ==
    /\ controllers[c] = "new"
    /\ \A d \in Sinks : d < c => controllers[d] # "new"
    /\ IsoRoom(t)
    /\ LET ctl == [controllers EXCEPT ![c] = "open"]
           subs == subscribe(subscribers, t, c)
           p == publish(subs, ctl, t)
       IN /\ controllers' = ctl
          /\ subscribers' = p.subs
          /\ sink' = IsoEnqueue(sink, p.delivered,
                                [task |-> t, type |-> T_connected, by |-> c])
    /\ req' = [req EXCEPT ![c] = t]
    /\ client' = [client EXCEPT ![c] = "attached"]
    /\ hist' = [op |-> "start", task |-> t]
    /\ UNCHANGED nonIsoVars

\* the run of task t publishes an event
IsoPublish(t, type) ==
    /\ IsoRoom(t)
    /\ LET p == publish(subscribers, controllers, t)
       IN /\ subscribers' = p.subs
          /\ sink' = IsoEnqueue(sink, p.delivered,
                                [task |-> t, type |-> type, by |-> 0])
    /\ hist' = [op |-> "publish", task |-> t]
    /\ UNCHANGED <<controllers, client, req, nonIsoVars>>

\* the run of task t closes the task's streams
IsoClose(t) ==
    /\ LET c == close(subscribers, controllers, t)
       IN /\ subscribers' = c.subs
          /\ controllers' = c.ctl
    /\ hist' = [op |-> "close", task |-> t]
    /\ UNCHANGED <<sink, client, req, nonIsoVars>>

\* the client goes away: its response stream is cancelled
IsoDisconnect(c) ==
    /\ client[c] = "attached"
    /\ client' = [client EXCEPT ![c] = "gone"]
    /\ controllers' = [controllers EXCEPT ![c] = "closed"]
    /\ UNCHANGED <<subscribers, sink, req, hist, nonIsoVars>>

\* the abort listener of the request runs: unsubscribe(taskId, connectionId)
IsoAbortListener(c) ==
    /\ client[c] = "gone"
    /\ client' = [client EXCEPT ![c] = "aborted"]
    /\ subscribers' = unsubscribe(subscribers, req[c], c)
    /\ hist' = [op |-> "unsubscribe", task |-> req[c]]
    /\ UNCHANGED <<controllers, sink, req, nonIsoVars>>

IsoNext ==
    \/ \E c \in Sinks, t \in MuxTasks : IsoStart(c, t)
    \/ \E t \in MuxTasks, type \in {T_status, T_completion} : IsoPublish(t, type)
    \/ \E t \in MuxTasks : IsoClose(t)
    \/ \E c \in Sinks : IsoDisconnect(c)
    \/ \E c \in Sinks : IsoAbortListener(c)

IsoSpec == IsoInit /\ [][IsoNext]_vars

(***************************************************************************)
(* The EventPublisher of one task with its two producers, the poll loop of *)
(* processTask and the reader loop of streamImplementation, and with the   *)
(* clients of streamTaskUpdates.  publish is synchronous: a call runs to   *)
(* its end before another handler runs.  hist.log holds the events of the  *)
(* publish calls in call order; sink[c] holds the messages enqueued on the *)
(* sink of connection c (msgs), the number of publish calls made before c  *)
(* was subscribed (since), and whether subscribe has been called for c and *)
(* unsubscribe has not been since (held).                                  *)
(***************************************************************************)
W_status == <<"s", "t", "a", "t", "u", "s">>
W_processing ==
    <<"p", "r", "o", "c", "e", "s", "s", "i", "n", "g">>

Digits == <<"0", "1", "2", "3", "4", "5", "6", "7", "8", "9">>

\* new Date().toISOString() at the n-th publish call: the clock is read as
\* the number of publish calls made so far
Stamp(n) == <<"T", Digits[n + 1]>>

WireEvent(type, data, n) == [type |-> type, data |-> data, timestamp |-> Stamp(n)]

NewSink == [msgs |-> <<>>, since |-> 0, held |-> FALSE]

DeliverInit ==
    /\ OrchInit
    /\ subscribers = [t \in {} |-> <<>>]
    /\ controllers = [c \in Sinks |-> "new"]
    /\ client = [c \in Conns |-> "none"]
    /\ queue = [c \in Sinks |-> 0]
    /\ hist = NoHistory(TRUE)
    /\ fetch = NoFetch
    /\ sent = <<>>
    /\ api = NoApi
    /\ wire = NoWire
    /\ req = NoReqs
    /\ sink = [c \in Sinks |-> NewSink]

nonDeliverVars == <<orchVars, store, readerVars, client, olog, fetch, sent, queue,
                    req, wire, api>>

\* controller.enqueue(message) on the sinks a publish call delivered to
Enqueue(sk, delivered, message) ==
    [c \in DOMAIN sk |->
        IF \E n \in 1..Len(delivered) : delivered[n] = c
        THEN [sk[c] EXCEPT !.msgs = Append(@, message)]
        ELSE sk[c]]

\* the publish calls for the events of a list, one after the other; st holds
\* the subscribers, the sinks and the history
RECURSIVE PublishEach(_, _, _)
PublishEach(st, ctl, events) ==
    IF events = <<>> THEN st
    ELSE LET ev == WireEvent(Head(events).type, Head(events).data, Len(st.hist.log))
             p == publish(st.subs, ctl, Task)
         IN PublishEach([subs |-> p.subs,
                         sink |-> Enqueue(st.sink, p.delivered, Message(ev)),
                         hist |-> NotePublish(st.hist, ev)],
                        ctl, Tail(events))

Published(subs, ctl, events) ==
    /\ Len(hist.log) + Len(events) <= MaxPublishes
    /\ LET st == PublishEach([subs |-> subs, sink |-> sink, hist |-> hist],
                             ctl, events)
       IN /\ subscribers' = st.subs
          /\ sink' = st.sink
          /\ hist' = st.hist

\* the poll loop publishes the status it has read
PollPublishes(status) ==
    /\ Published(subscribers, controllers,
                 <<[type |-> T_status, data |-> << <<W_status, status>> >>]>>)
    /\ UNCHANGED <<controllers, nonDeliverVars>>

\* the reader loop publishes the events it has decoded from a chunk
ReaderPublishes(chunk) ==
    /\ Published(subscribers, controllers, extractEvents(chunk).complete)
    /\ UNCHANGED <<controllers, nonDeliverVars>>

\* subscribe is called for a new connection: connection ids are fresh (they
\* are numbered here in the order of the subscribe calls), and each
\* connection comes with a sink of its own
DeliverSubscribe(c) ==
    /\ controllers[c] = "new"
    /\ \A d \in Sinks : d < c => controllers[d] # "new"
    /\ subscribers' = subscribe(subscribers, Task, c)
    /\ controllers' = [controllers EXCEPT ![c] = "open"]
    /\ sink' = [sink EXCEPT ![c] = [msgs |-> <<>>, since |-> Len(hist.log),
                                    held |-> TRUE]]
    /\ UNCHANGED <<hist, nonDeliverVars>>

DeliverUnsubscribe(c) ==
    /\ subscribers' = unsubscribe(subscribers, Task, c)
    /\ sink' = [sink EXCEPT ![c].held = FALSE]
    /\ UNCHANGED <<controllers, hist, nonDeliverVars>>

\* the client of a sink goes away: its stream is cancelled
DeliverCancelled(c) ==
    /\ controllers[c] = "open"
    /\ controllers' = [controllers EXCEPT ![c] = "closed"]
    /\ UNCHANGED <<subscribers, sink, hist, nonDeliverVars>>

DeliverNext ==
    \/ PollPublishes(W_processing)
    \/ ReaderPublishes(ChunkOutput)
    \/ \E c \in Sinks : DeliverSubscribe(c)
    \/ \E c \in Sinks : DeliverUnsubscribe(c)
    \/ \E c \in Sinks : DeliverCancelled(c)

DeliverSpec == DeliverInit /\ [][DeliverNext]_vars

(***************************************************************************)
(* streamTaskUpdates for the clients of two tasks, the EventPublisher, and *)
(* processTask for the task t1 in its first MaxPolls polls.  client[c] is  *)
(* "none", "lookup" (the handler awaits the task's row), "lookupGone" (the *)
(* same, the client has gone), "attached" (start(controller) has run),     *)
(* "deaf" (it has run for a client that had gone), "gone" (the client has  *)
(* disconnected: its stream is cancelled, the abort listener has not run   *)
(* yet) or "aborted" (the abort listener has run).                         *)
(***************************************************************************)
MaxPolls == 1

ConnInit ==
    /\ OrchInit
    /\ subscribers = [t \in {} |-> <<>>]
    /\ controllers = [c \in Sinks |-> "new"]
    /\ client = [c \in Sinks |-> "none"]
    /\ queue = [c \in Sinks |-> 0]
    /\ hist = NoHistory(FALSE)
    /\ fetch = NoFetch
    /\ sent = <<>>
    /\ api = NoApi
    /\ wire = NoWire
    /\ sink = NoSinks
    /\ req = [c \in Sinks |-> "none"]

\* GET /api/v1/tasks/t/stream arrives: streamTaskUpdates awaits the task's
\* row (connection ids are numbered in the order of the requests)
StreamRequest(c, t) ==
    /\ client[c] = "none"
    /\ \A d \in Sinks : d < c => client[d] # "none"
    /\ client' = [client EXCEPT ![c] = "lookup"]
    /\ req' = [req EXCEPT ![c] = t]
    /\ UNCHANGED <<orchVars, store, readerVars, subscribers, controllers, hist,
                   olog, fetch, sent, queue, sink, wire, api>>

\* the client goes away while streamTaskUpdates awaits the row: req.signal
\* is aborted before any listener has been added
EarlyDisconnect(c) ==
    /\ client[c] = "lookup"
    /\ client' = [client EXCEPT ![c] = "lookupGone"]
    /\ UNCHANGED <<orchVars, store, readerVars, subscribers, controllers, hist,
                   olog, fetch, sent, queue, sink, req, wire, api>>

\* the row is there; start(controller): subscribe the connection, publish
\* the connected event, add the abort listener.  A listener added to a
\* signal that is aborted already is never called ("deaf").
ConnStart(c) ==
    /\ client[c] \in {"lookup", "lookupGone"}
    /\ LET ctl == [controllers EXCEPT ![c] = "open"]
           p == publish(subscribe(subscribers, req[c], c), ctl, req[c])
       IN /\ controllers' = ctl
          /\ subscribers' = p.subs
          /\ hist' = IF req[c] = Task THEN NotePublish(hist, ConnectedEvent)
                     ELSE hist
    /\ client' = [client EXCEPT ![c] = IF @ = "lookup" THEN "attached" ELSE "deaf"]
    /\ UNCHANGED <<orchVars, store, readerVars, olog, fetch, sent, queue, sink, req,
                   wire, api>>

\* the response of a client that had gone before start: its stream is
\* cancelled
ResponseCancelled(c) ==
    /\ client[c] = "deaf"
    /\ controllers[c] = "open"
    /\ controllers' = [controllers EXCEPT ![c] = "closed"]
    /\ UNCHANGED <<orchVars, store, readerVars, subscribers, client, hist, olog,
                   fetch, sent, queue, sink, req, wire, api>>

\* the client goes away: its response stream is cancelled
ConnDisconnect(c) ==
    /\ client[c] = "attached"
    /\ client' = [client EXCEPT ![c] = "gone"]
    /\ controllers' = [controllers EXCEPT ![c] = "closed"]
    /\ UNCHANGED <<orchVars, store, readerVars, subscribers, hist, olog,
                   fetch, sent, queue, sink, req, wire, api>>

\* the abort listener of the request runs
ConnAbortListener(c) ==
    /\ client[c] = "gone"
    /\ client' = [client EXCEPT ![c] = "aborted"]
    /\ subscribers' = unsubscribe(subscribers, req[c], c)
    /\ UNCHANGED <<orchVars, store, readerVars, controllers, hist, olog,
                   fetch, sent, queue, sink, req, wire, api>>

\* processTask of t1: the steps of its first MaxPolls polls
ConnOrchStep ==
    \/ StartTask
    \/ hist.polls < MaxPolls /\ SleepDone
    \/ \E resp \in StatusResponses : PollReturn(resp)
    \/ \E m \in ClientErrors : PollThrow(m)
    \/ \E r \in ImplementationResponses : GetImplReturn(r)
    \/ \E m \in ClientErrors : GetImplThrow(m)
    \/ \E ok \in BOOLEAN : UpdateCompletedReturn(ok)
    \/ UploadReturn
    \/ UploadThrow
    \/ \E ok \in BOOLEAN : UpdateFailedReturn(ok)
    \/ \E ok \in BOOLEAN : UpdateCrashedReturn(ok)

ConnNext ==
    \/ \E c \in Sinks, t \in MuxTasks : StreamRequest(c, t)
    \/ \E c \in Sinks : EarlyDisconnect(c)
    \/ \E c \in Sinks : ConnStart(c)
    \/ \E c \in Sinks : ResponseCancelled(c)
    \/ \E c \in Sinks : ConnDisconnect(c)
    \/ \E c \in Sinks : ConnAbortListener(c)
    \/ StartTask /\ UNCHANGED sideVars
    \/ hist.polls < MaxPolls /\ SleepDone /\ UNCHANGED sideVars
    \/ \E resp \in StatusResponses : PollReturn(resp) /\ UNCHANGED sideVars
    \/ \E m \in ClientErrors : PollThrow(m) /\ UNCHANGED sideVars
    \/ \E r \in ImplementationResponses : GetImplReturn(r) /\ UNCHANGED sideVars
    \/ \E m \in ClientErrors : GetImplThrow(m) /\ UNCHANGED sideVars
    \/ \E ok \in BOOLEAN : UpdateCompletedReturn(ok) /\ UNCHANGED sideVars
    \/ UploadReturn /\ UNCHANGED sideVars
    \/ UploadThrow /\ UNCHANGED sideVars
    \/ \E ok \in BOOLEAN : UpdateFailedReturn(ok) /\ UNCHANGED sideVars
    \/ \E ok \in BOOLEAN : UpdateCrashedReturn(ok) /\ UNCHANGED sideVars

ConnSpec == ConnInit /\ [][ConnNext]_vars

(***************************************************************************)
(* processTask in its first polls, with the clients of its task and with   *)
(* the events of the publish calls logged in call order.  The poll loop is *)
(* followed for two polls more than MaxPolls, so that a poll can repeat    *)
(* the answer of the one before and a third can end the loop.              *)
(***************************************************************************)
StatusPolls == MaxPolls + 2

StatusInit ==
    /\ OrchInit
    /\ NoClients
    /\ hist = NoHistory(TRUE)
    /\ fetch = NoFetch
    /\ sent = <<>>
    /\ api = NoApi
    /\ wire = NoWire
    /\ sink = NoSinks
    /\ req = NoReqs

StatusNext ==
    \/ StartTask /\ UNCHANGED sideVars
    \/ hist.polls < StatusPolls /\ SleepDone /\ UNCHANGED sideVars
    \/ \E resp \in StatusResponses : PollReturn(resp) /\ UNCHANGED sideVars
    \/ \E m \in ClientErrors : PollThrow(m) /\ UNCHANGED sideVars
    \/ \E r \in ImplementationResponses : GetImplReturn(r) /\ UNCHANGED sideVars
    \/ \E m \in ClientErrors : GetImplThrow(m) /\ UNCHANGED sideVars
    \/ \E ok \in BOOLEAN : UpdateCompletedReturn(ok) /\ UNCHANGED sideVars
    \/ UploadReturn /\ UNCHANGED sideVars
    \/ UploadThrow /\ UNCHANGED sideVars
    \/ \E ok \in BOOLEAN : UpdateFailedReturn(ok) /\ UNCHANGED sideVars
    \/ \E ok \in BOOLEAN : UpdateCrashedReturn(ok) /\ UNCHANGED sideVars
    \/ \E c \in Conns : Attach(c) /\ UNCHANGED sideVars
    \/ \E c \in Conns : ClientDisconnect(c) /\ UNCHANGED sideVars
    \/ \E c \in Conns : AbortListener(c) /\ UNCHANGED sideVars

StatusSpec == StatusInit /\ [][StatusNext]_vars

(***************************************************************************)
(* One event on its way through the wire format: publish builds its        *)
(* message, and the message is decoded as one buffer by extractEvents.     *)
(* The event types are those the program publishes; the data objects have  *)
(* up to MaxMembers members with values that need escapes, that have       *)
(* white space at their ends, or that are undefined.                       *)
(***************************************************************************)
MaxMembers == 2

T_output ==
    <<"t", "a", "s", "k", ".", "o", "u", "t", "p", "u", "t">>
WireTypes == {T_status, T_completion, T_error, T_connected, T_streamError, T_output}
WireKeys == {<<"c">>, <<"m", " ", "k">>, TimestampKey}
WireValues ==
    {<<"x">>, <<"a", Quote, "b">>, <<"\\", "n">>, <<" ", "x", NL, " ">>, Undefined}

\* the objects of n members with distinct keys
RECURSIVE ObjectsOf(_)
ObjectsOf(n) ==
    IF n = 0 THEN {<<>>}
    ELSE {Append(o, <<k, v>>) :
             o \in ObjectsOf(n - 1), k \in WireKeys, v \in WireValues}

HasDistinctKeys(o) == \A i, j \in 1..Len(o) : o[i][1] = o[j][1] => i = j

WireObjects ==
    {o \in UNION {ObjectsOf(n) : n \in 0..MaxMembers} : HasDistinctKeys(o)}

WireInit ==
    /\ OrchInit
    /\ NoClients
    /\ hist = NoHistory(FALSE)
    /\ fetch = NoFetch
    /\ sent = <<>>
    /\ api = NoApi
    /\ sink = NoSinks
    /\ req = NoReqs
    /\ wire \in {[pc |-> "event", event |-> [type |-> t, data |-> d, timestamp |-> Stamp(0)]] :
                    t \in WireTypes, d \in WireObjects}

nonWireVars == <<orchVars, store, readerVars, subscribers, controllers, client,
                 hist, olog, fetch, sent, queue, sink, req, api>>

\* publish builds the message of the event
WireFormat ==
    /\ wire.pc = "event"
    /\ wire' = [pc |-> "message", event |-> wire.event,
                message |-> Message(wire.event)]
    /\ UNCHANGED nonWireVars

\* the message arrives as one chunk: extractEvents(buffer)
WireDecode ==
    /\ wire.pc = "message"
    /\ wire' = [pc |-> "decoded", event |-> wire.event, message |-> wire.message,
                out |-> extractEvents(wire.message)]
    /\ UNCHANGED nonWireVars

WireNext == WireFormat \/ WireDecode

WireSpec == WireInit /\ [][WireNext]_vars

(***************************************************************************)
(* The API function (supabase/functions/api/index.ts).  Its handlers are   *)
(* async functions; each await on the database or on an upstream service   *)
(* is a point where another request's handler may run.  MaxRequests        *)
(* requests are in flight at once.                                         *)
(***************************************************************************)
MaxRequests == 2
Requests == 1..MaxRequests

nonApiVars == <<orchVars, store, readerVars, subscribers, controllers, client,
                hist, olog, fetch, sent, queue, sink, req, wire>>

\* nothing but the API function runs
ApiIdle ==
    /\ OrchInit
    /\ NoClients
    /\ hist = NoHistory(FALSE)
    /\ fetch = NoFetch
    /\ sent = <<>>
    /\ sink = NoSinks
    /\ req = NoReqs
    /\ wire = NoWire

(***************************************************************************)
(* createTask and deleteTask on one row of the table tasks: the row of     *)
(* the task createTask inserts.  row is its status, or "absent"; removed   *)
(* is history: the statuses the row had when a delete removed it.          *)
(***************************************************************************)
DeleteInit ==
    /\ ApiIdle
    /\ api = [row |-> "absent", create |-> "idle",
              del |-> [d \in Requests |-> [pc |-> "idle", seen |-> "none"]],
              removed |-> {}]

\* update(...).eq("id", taskId): changes the row if it is there
UpdateRow(status) == IF api.row = "absent" THEN "absent" ELSE status

\* createTask: insert({id: taskId, status: "pending", ...})
CreateInsert ==
    /\ api.create = "idle"
    /\ api' = [api EXCEPT !.row = "pending", !.create = "inserted"]
    /\ UNCHANGED nonApiVars

\* createTask: insertError, thrown as database_error before the try
CreateInsertFails ==
    /\ api.create = "idle"
    /\ api' = [api EXCEPT !.create = "database_error"]
    /\ UNCHANGED nonApiVars

\* createTask: the fetch of bolt.diy resolves with ok, resolves without
\* ok, or rejects
CreateFetched(outcome) ==
    /\ api.create = "inserted"
    /\ api' = [api EXCEPT !.create = outcome]
    /\ UNCHANGED nonApiVars

\* createTask: update({status: "processing"}), the response follows
CreateProcessing ==
    /\ api.create = "ok"
    /\ api' = [api EXCEPT !.row = UpdateRow("processing"),
                          !.create = "responded"]
    /\ UNCHANGED nonApiVars

\* createTask: updateError of that update, thrown inside the try
CreateProcessingFails ==
    /\ api.create = "ok"
    /\ api' = [api EXCEPT !.create = "catch"]
    /\ UNCHANGED nonApiVars

\* createTask: the fallback completes, update({status: "completed", ...})
CreateFallback ==
    /\ api.create = "not_ok"
    /\ api' = [api EXCEPT !.row = UpdateRow("completed"),
                          !.create = "responded"]
    /\ UNCHANGED nonApiVars

\* createTask: the fallback throws
CreateFallbackFails ==
    /\ api.create = "not_ok"
    /\ api' = [api EXCEPT !.create = "catch"]
    /\ UNCHANGED nonApiVars

\* createTask: catch: update({status: "failed", ...}), server_error thrown
CreateCatch ==
    /\ api.create = "catch"
    /\ api' = [api EXCEPT !.row = UpdateRow("failed"),
                          !.create = "server_error"]
    /\ UNCHANGED nonApiVars

\* deleteTask: the select of the row's status returns; not_found and
\* invalid_request are thrown from what it returned
DeleteSelect(d) ==
    /\ api.del[d].pc = "idle"
    /\ api' = [api EXCEPT !.del[d] =
                  [pc |-> IF api.row = "absent" THEN "not_found"
                          ELSE IF api.row = "processing" THEN "invalid_request"
                          ELSE "deleting",
                   seen |-> api.row]]
    /\ UNCHANGED nonApiVars

\* deleteTask: delete().eq("id", taskId) runs, the response follows
DeleteRow(d) ==
    /\ api.del[d].pc = "deleting"
    /\ api' = [api EXCEPT !.row = "absent",
                          !.del[d].pc = "responded",
                          !.removed = IF api.row = "absent" THEN @
                                      ELSE @ \cup {api.row}]
    /\ UNCHANGED nonApiVars

\* deleteTask: deleteError, thrown as database_error
DeleteRowFails(d) ==
    /\ api.del[d].pc = "deleting"
    /\ api' = [api EXCEPT !.del[d].pc = "database_error"]
    /\ UNCHANGED nonApiVars

DeleteNext ==
    \/ CreateInsert
    \/ CreateInsertFails
    \/ \E outcome \in {"ok", "not_ok", "catch"} : CreateFetched(outcome)
    \/ CreateProcessing
    \/ CreateProcessingFails
    \/ CreateFallback
    \/ CreateFallbackFails
    \/ CreateCatch
    \/ \E d \in Requests : DeleteSelect(d)
    \/ \E d \in Requests : DeleteRow(d)
    \/ \E d \in Requests : DeleteRowFails(d)

DeleteSpec == DeleteInit /\ [][DeleteNext]_vars

(***************************************************************************)
(* handleRequest: one request from its arrival to the handler it is        *)
(* dispatched to.  A pathname is given as url.pathname.split("/") gives    *)
(* it: a sequence of segments, the empty ones included.                    *)
(***************************************************************************)
HttpMethods == {"GET", "POST", "PUT", "DELETE", "OPTIONS"}

TaskPath == <<"", "api", "v1", "tasks", "t1">>

Pathnames ==
    { <<"", "api", "v1", "tasks">>,
      <<"", "api", "v1", "tasks", "">>,
      TaskPath,
      TaskPath \o <<"">>,
      TaskPath \o <<"status">>,
      TaskPath \o <<"implementation">>,
      TaskPath \o <<"stream">>,
      <<"", "api", "v1", "api-keys">>,
      <<"", "api", "v1", "templates">>,
      <<"", "api", "v2", "tasks", "t1">>,
      <<"", "tasks", "t1">> }

\* split("/").filter(Boolean)
PathParts(pathname) == SelectSeq(pathname, LAMBDA part : part # "")

\* pathParts[i], counted from 0 as the code does
Part(pathParts, i) ==
    IF i + 1 <= Len(pathParts) THEN pathParts[i + 1] ELSE "undefined"

Handler(name, taskId) == [handler |-> name, taskId |-> taskId]

\* handleRequest after authenticate and checkRateLimit: the handler called
\* and the task id it is given
Dispatch(method, pathParts) ==
    LET tasks == Part(pathParts, 2) = "tasks"
        id    == Part(pathParts, 3)
    IN  IF Part(pathParts, 0) # "api" \/ Part(pathParts, 1) # "v1"
            THEN Handler("not_found", "none")
        ELSE IF method = "GET" /\ tasks /\ Part(pathParts, 4) = "stream"
            THEN Handler("streamTaskUpdates", id)
        ELSE IF method = "POST" /\ tasks
            THEN Handler("createTask", "none")
        ELSE IF method = "GET" /\ tasks /\ Part(pathParts, 4) = "status"
            THEN Handler("getTaskStatus", id)
        ELSE IF method = "GET" /\ tasks /\ Part(pathParts, 4) = "implementation"
            THEN Handler("getTaskImplementation", id)
        ELSE IF method = "PUT" /\ tasks /\ Len(pathParts) = 3
            THEN Handler("updateTask", id)
        ELSE IF method = "DELETE" /\ tasks /\ Len(pathParts) = 3
            THEN Handler("deleteTask", id)
        ELSE IF method = "POST" /\ Part(pathParts, 2) = "api-keys"
            THEN Handler("createApiKey", "none")
        ELSE IF method = "GET" /\ Part(pathParts, 2) = "api-keys"
            THEN Handler("listApiKeys", "none")
        ELSE IF method = "DELETE" /\ Part(pathParts, 2) = "api-keys"
            THEN Handler("revokeApiKey", "none")
        ELSE Handler("not_found", "none")

\* a request arrives: its method, its pathname, and what its Authorization
\* header holds (no bearer token, an unknown key, a valid key)
RouteInit ==
    /\ ApiIdle
    /\ api \in [pc : {"received"}, method : HttpMethods, pathname : Pathnames,
                auth : {"missing", "unknown", "valid"}]

Answered(status, code) ==
    [pc |-> "answered", method |-> api.method, pathname |-> api.pathname,
     auth |-> api.auth, status |-> status, code |-> code]

\* handleRequest: an OPTIONS request is answered at once
RouteOptions ==
    /\ api.pc = "received"
    /\ api.method = "OPTIONS"
    /\ api' = Answered(200, "none")
    /\ UNCHANGED nonApiVars

\* handleRequest: await authenticate(req)
RouteAuthenticate ==
    /\ api.pc = "received"
    /\ api.method # "OPTIONS"
    /\ api' = IF api.auth = "missing" THEN Answered(401, "authentication_error")
              ELSE IF api.auth = "unknown" THEN Answered(403, "authentication_error")
              ELSE [api EXCEPT !.pc = "authenticated"]
    /\ UNCHANGED nonApiVars

\* handleRequest: await checkRateLimit(req), with what rateLimiter.check
\* returned
RouteRateLimit(allowed) ==
    /\ api.pc = "authenticated"
    /\ api' = IF allowed THEN [api EXCEPT !.pc = "admitted"]
              ELSE Answered(429, "rate_limit_exceeded")
    /\ UNCHANGED nonApiVars

\* handleRequest: the path is split and the handler is called
RouteDispatch ==
    /\ api.pc = "admitted"
    /\ api' = [pc |-> "dispatched", method |-> api.method,
               pathname |-> api.pathname, auth |-> api.auth,
               to |-> Dispatch(api.method, PathParts(api.pathname))]
    /\ UNCHANGED nonApiVars

RouteNext ==
    \/ RouteOptions
    \/ RouteAuthenticate
    \/ \E allowed \in BOOLEAN : RouteRateLimit(allowed)
    \/ RouteDispatch

RouteSpec == RouteInit /\ [][RouteNext]_vars

(***************************************************************************)
(* RateLimiter.check for the requests of one identifier, all of them       *)
(* within one window of WINDOW_MS.  rows is the number of rate_limit rows  *)
(* of the identifier in the table metrics; admitted is history: the        *)
(* requests for which check returned true; errors: whether the count has   *)
(* failed.  A request slot is free again once its request has been let     *)
(* through or answered.                                                    *)
(***************************************************************************)
MAX_REQUESTS == 60

LimitInit ==
    /\ ApiIdle
    /\ api = [rows |-> 0, admitted |-> 0, errors |-> FALSE,
              rq |-> [r \in Requests |-> [pc |-> "idle", count |-> 0]]]

\* requests are followed until the limit is passed by every slot
LimitFollowed == api.admitted < MAX_REQUESTS + MaxRequests

\* check: the count of the identifier's rows in the window returns
LimitCount(r) ==
    /\ api.rq[r].pc = "idle"
    /\ LimitFollowed
    /\ api' = [api EXCEPT !.rq[r] = [pc |-> "counted", count |-> api.rows]]
    /\ UNCHANGED nonApiVars

\* check: the count fails; "Allow request if we can't check the limit"
\* (one failure of the database is followed)
LimitCountFails(r) ==
    /\ api.rq[r].pc = "idle"
    /\ LimitFollowed
    /\ ~api.errors
    /\ api' = [api EXCEPT !.admitted = @ + 1, !.errors = TRUE]
    /\ UNCHANGED nonApiVars

\* check: count < MAX_REQUESTS: the row is inserted and check returns true
LimitInsert(r) ==
    /\ api.rq[r].pc = "counted"
    /\ api.rq[r].count < MAX_REQUESTS
    /\ api' = [api EXCEPT !.rows = @ + 1, !.admitted = @ + 1,
                          !.rq[r] = [pc |-> "idle", count |-> 0]]
    /\ UNCHANGED nonApiVars

\* check returns false: checkRateLimit throws rate_limit_exceeded (429)
LimitReject(r) ==
    /\ api.rq[r].pc = "counted"
    /\ api.rq[r].count >= MAX_REQUESTS
    /\ api' = [api EXCEPT !.rq[r] = [pc |-> "idle", count |-> 0]]
    /\ UNCHANGED nonApiVars

LimitNext ==
    \/ \E r \in Requests : LimitCount(r)
    \/ \E r \in Requests : LimitCountFails(r)
    \/ \E r \in Requests : LimitInsert(r)
    \/ \E r \in Requests : LimitReject(r)

LimitSpec == LimitInit /\ [][LimitNext]_vars

(***************************************************************************)
(* What a run of processTask has done, read from its log                   *)
(***************************************************************************)
IsTerminalPublish(e) == e.op = "publish" /\ e.arg.type \in TerminalTypes

\* positions in the log of the Orchestrator's task.completion / task.error
\* publications, and of its close(taskId) calls
OrchTerminalIdx == {i \in 1..Len(olog) : IsTerminalPublish(olog[i])}
CloseIdx == {i \in 1..Len(olog) : olog[i].op = "close"}
UpdateIdx == {i \in 1..Len(olog) : olog[i].op = "update"}

BranchOfCode(code) ==
    CASE code = "none" -> "Completed"
      [] code = "bolt_diy_processing_error" -> "Failed"
      [] code = "timeout" -> "TimedOut"
      [] code = "background_processing_error" -> "Crashed"

BranchOfEvent(ev) ==
    IF ev.type = T_completion THEN "Completed" ELSE BranchOfCode(ev.data.code)

\* the terminal branches that have changed the store or published their event
BranchesActed ==
    {BranchOfCode(olog[i].arg.code) : i \in {j \in UpdateIdx : olog[j].arg.ok}}
    \cup {BranchOfEvent(olog[i].arg) : i \in OrchTerminalIdx}

\* the terminal state a finished run ended in: the branch whose event it published
EndedIn(branch) ==
    /\ pc = "done"
    /\ \E i \in OrchTerminalIdx : BranchOfEvent(olog[i].arg) = branch

(***************************************************************************)
(* C1: for the task, at most one task.completion or task.error event is    *)
(* ever published to the Event Multiplexer, by the poll loop and the       *)
(* stream reader together, and no event of any type is published (hence    *)
(* none delivered) for the task after it.                                  *)
(* The code does not keep it: the stream reader is never stopped, and a    *)
(* client may attach after the end.                                        *)
(***************************************************************************)
C1_OneTerminalEventThenSilence ==
    hist.termPub <= 1 /\ ~hist.afterTerm

(***************************************************************************)
(* C2: every run of processTask publishes exactly one task.completion or   *)
(* task.error event from the Orchestrator and calls close(taskId) only     *)
(* after it, on every terminal path and for every outcome of the store     *)
(* writes; close is never called before that event is published.           *)
(***************************************************************************)
C2_OneTerminalEventBeforeClose ==
    /\ Cardinality(OrchTerminalIdx) <= 1
    /\ Cardinality(CloseIdx) <= 1
    /\ \A c \in CloseIdx : \E t \in OrchTerminalIdx : t < c
    /\ pc = "done" => /\ Cardinality(OrchTerminalIdx) = 1
                      /\ Cardinality(CloseIdx) = 1

\* a run that ended in Crashed after a store write returned an error, and
\* whose own store write returned an error too
C2_Witness ==
    /\ EndedIn("Crashed")
    /\ hist.failedStep = "update"
    /\ \A i \in UpdateIdx : ~olog[i].arg.ok
    /\ CloseIdx # {}

(***************************************************************************)
(* C3: in every run exactly one of the four terminal branches executes:    *)
(* no run changes the store or publishes the event of two different        *)
(* terminal branches.                                                      *)
(* The code does not keep it: when a file upload fails, the Completed      *)
(* branch has already stored status=completed and the Crashed branch then  *)
(* stores status=failed and publishes task.error.                          *)
(***************************************************************************)
C3_OneTerminalBranch ==
    /\ Cardinality(BranchesActed) <= 1
    /\ pc = "done" => Cardinality(BranchesActed) = 1

(***************************************************************************)
(* C4: once the task's stored status is completed or failed, no later      *)
(* write changes it: the store never goes completed -> failed nor          *)
(* failed -> anything.                                                     *)
(* The code does not keep it: a failed upload after the completed write    *)
(* makes the catch block overwrite completed with failed.                  *)
(***************************************************************************)
C4_TerminalStatusIsFinal ==
    [][store.status \in {"completed", "failed"} => store'.status = store.status]_vars

(***************************************************************************)
(* C5: in every reachable state of the store, implementation is present    *)
(* only if status is completed, and error is present only if status is     *)
(* failed.                                                                 *)
(* The code does not keep it: the catch block's partial update after a     *)
(* failed upload leaves the implementation in a row whose status is failed.*)
(***************************************************************************)
C5_FieldsMatchStatus ==
    /\ store.implementation # Null => store.status = "completed"
    /\ store.error # NoError => store.status = "failed"

(***************************************************************************)
(* C6: if getTaskStatus first reports completed on poll k, 1 <= k <= 30,   *)
(* the Orchestrator calls getImplementation exactly once, makes no further *)
(* getTaskStatus call, and ends in the Completed state.                    *)
(***************************************************************************)
\* the claim as stated: fails when getImplementation, the store write or an
\* upload fails after the completed poll, for the run then ends in Crashed
C6_Original ==
    (pc = "done" /\ hist.completedAt \in 1..MAX_RETRIES) =>
        /\ hist.implCalls = 1
        /\ hist.polls = hist.completedAt
        /\ EndedIn("Completed")

\* amended: one getImplementation call and no further poll; the run ends in
\* Completed when getImplementation, the store write and every upload
\* succeed, and in Crashed otherwise
C6_CompletedPollEndsPolling ==
    hist.completedAt >= 1 =>
        /\ hist.completedAt <= MAX_RETRIES
        /\ hist.nonTerminal = hist.completedAt - 1
        /\ hist.implCalls = 1
        /\ hist.polls = hist.completedAt
        /\ pc \in {"getImplementation", "updateCompleted", "uploadFile",
                   "updateCrashed", "done"}
        /\ pc = "done" =>
              IF hist.failedStep = "none"
              THEN EndedIn("Completed") /\ store.status = "completed"
              ELSE EndedIn("Crashed")

\* completed is first reported by the last allowed poll, and the run ends
\* in Completed
C6_Witness ==
    /\ EndedIn("Completed")
    /\ hist.completedAt = MAX_RETRIES
    /\ hist.polls = MAX_RETRIES

(***************************************************************************)
(* C7: if each of the 30 allowed polls returns pending or processing, the  *)
(* Orchestrator makes exactly 30 getTaskStatus calls and takes the         *)
(* TimedOut branch: it writes status=failed with error.code "timeout",     *)
(* publishes one task.error event with code timeout and closes the stream. *)
(***************************************************************************)
TimeoutEvent == ErrorEvent("timeout", "Task processing timed out")

\* the claim as stated: fails when the store write of the TimedOut branch
\* returns an error, for the event published is then the Crashed branch's
C7_Original ==
    (pc = "done" /\ hist.nonTerminal = MAX_RETRIES) =>
        /\ hist.polls = MAX_RETRIES
        /\ store.status = "failed"
        /\ store.error.code = "timeout"
        /\ \E i \in OrchTerminalIdx : olog[i].arg = TimeoutEvent
        /\ CloseIdx # {}

\* amended: 30 polls, then the store write of status=failed with code
\* timeout is attempted; if it succeeds the run publishes one task.error
\* with code timeout and closes; if it returns an error the run goes on to
\* the Crashed branch (one task.error with background_processing_error)
C7_TimedOutAfterThirtyPolls ==
    /\ hist.polls <= MAX_RETRIES
    /\ hist.nonTerminal = MAX_RETRIES =>
        /\ hist.polls = MAX_RETRIES
        /\ hist.implCalls = 0
        /\ pc \in {"updateTimeout", "updateCrashed", "done"}
        /\ pc = "updateTimeout" => olog = <<>>
        /\ pc = "updateCrashed" => olog = <<WriteCall("failed", "timeout", FALSE)>>
        /\ pc = "done" =>
              \/ /\ olog = <<WriteCall("failed", "timeout", TRUE),
                             LogCall("publish", TimeoutEvent),
                             LogCall("close", "-")>>
                 /\ store.status = "failed"
                 /\ store.error.code = "timeout"
              \/ /\ Len(olog) = 4
                 /\ olog[1] = WriteCall("failed", "timeout", FALSE)
                 /\ olog[2].op = "update"
                 /\ olog[2].arg.code = "background_processing_error"
                 /\ olog[3] = LogCall("publish",
                                 ErrorEvent("background_processing_error",
                                            "Failed to update task"))
                 /\ olog[4] = LogCall("close", "-")
                 /\ store.error.code # "timeout"

\* thirty non-terminal polls, the timeout write succeeded, the run is over
C7_Witness ==
    /\ pc = "done"
    /\ hist.nonTerminal = MAX_RETRIES
    /\ store.error.code = "timeout"
    /\ EndedIn("TimedOut")

(***************************************************************************)
(* C8: on the Completed path with every collaborator call succeeding, the  *)
(* Orchestrator performs, in this order: getImplementation, the store      *)
(* write of status=completed with the implementation, the file uploads,    *)
(* the publication of exactly one task.completion event carrying the       *)
(* implementation and the file list, and close(taskId); and in no run is   *)
(* task.completion published before the store write has succeeded.         *)
(***************************************************************************)
ExpectedUploads(r) ==
    IF HasFiles(r)
    THEN [i \in 1..Len(r.files[1]) |->
             LogCall("uploadFile", [name |-> r.files[1][i].name, ok |-> TRUE])]
    ELSE <<>>

C8_CompletedPathOrder ==
    /\ \A i \in 1..Len(olog) :
          (olog[i].op = "publish" /\ olog[i].arg.type = T_completion) =>
              \E j \in 1..(i - 1) : olog[j] = WriteCall("completed", "none", TRUE)
    /\ (pc = "done" /\ hist.completedAt >= 1 /\ hist.failedStep = "none") =>
          /\ olog = <<LogCall("getImplementation", "-"),
                      WriteCall("completed", "none", TRUE)>>
                    \o ExpectedUploads(result)
                    \o <<LogCall("publish",
                            Event(T_completion,
                                  [implementation |-> result.implementation,
                                   files |-> result.files])),
                         LogCall("close", "-")>>
          /\ store.status = "completed"
          /\ store.implementation = result.implementation
          /\ result.implementation \in Implementations

\* completed on the fourth poll, the result's files uploaded, the run is over
C8_Witness ==
    /\ pc = "done"
    /\ hist.completedAt = 4
    /\ hist.failedStep = "none"
    /\ HasFiles(result)
    /\ Len(result.files[1]) = MaxFiles
    /\ EndedIn("Completed")

(***************************************************************************)
(* C9: when a poll reports failed, the Orchestrator writes status=failed   *)
(* with code bolt_diy_processing_error, publishes exactly one task.error   *)
(* event with that code, closes the stream, never calls getImplementation  *)
(* and polls no more.                                                      *)
(***************************************************************************)
BackendFailedEvent ==
    ErrorEvent("bolt_diy_processing_error", "Task processing failed in bolt.diy")

\* the claim as stated: fails when the store write of the Failed branch
\* returns an error, for the event published is then the Crashed branch's
C9_Original ==
    (pc = "done" /\ hist.failedAt >= 1) =>
        /\ store.status = "failed"
        /\ store.error.code = "bolt_diy_processing_error"
        /\ \E i \in OrchTerminalIdx : olog[i].arg = BackendFailedEvent
        /\ CloseIdx # {}
        /\ hist.implCalls = 0
        /\ hist.polls = hist.failedAt

\* amended: no getImplementation call and no further poll; the store write
\* of status=failed with code bolt_diy_processing_error is attempted; if it
\* succeeds the run publishes one task.error with that code and closes; if
\* it returns an error the run goes on to the Crashed branch
C9_FailedPollEndsRun ==
    hist.failedAt >= 1 =>
        /\ hist.implCalls = 0
        /\ hist.polls = hist.failedAt
        /\ pc \in {"updateFailed", "updateCrashed", "done"}
        /\ pc = "updateFailed" => olog = <<>>
        /\ pc = "updateCrashed" =>
              olog = <<WriteCall("failed", "bolt_diy_processing_error", FALSE)>>
        /\ pc = "done" =>
              \/ /\ olog = <<WriteCall("failed", "bolt_diy_processing_error", TRUE),
                             LogCall("publish", BackendFailedEvent),
                             LogCall("close", "-")>>
                 /\ store.status = "failed"
                 /\ store.error.code = "bolt_diy_processing_error"
              \/ /\ Len(olog) = 4
                 /\ olog[1] = WriteCall("failed", "bolt_diy_processing_error", FALSE)
                 /\ olog[2].op = "update"
                 /\ olog[2].arg.code = "background_processing_error"
                 /\ olog[3] = LogCall("publish",
                                 ErrorEvent("background_processing_error",
                                            "Failed to update task"))
                 /\ olog[4] = LogCall("close", "-")

\* failed reported by the third poll, the write succeeded, the run is over
C9_Witness ==
    /\ pc = "done"
    /\ hist.failedAt = 3
    /\ store.error.code = "bolt_diy_processing_error"
    /\ EndedIn("Failed")

(***************************************************************************)
(* C10: when a step of processTask fails (a backend call, a store write    *)
(* that returns an error, a file upload), the Orchestrator attempts        *)
(* exactly one store write of status=failed with code                      *)
(* background_processing_error and, whether or not that write returns an   *)
(* error, then publishes one task.error event and calls close(taskId).     *)
(***************************************************************************)
CrashWriteIdx ==
    {i \in UpdateIdx : olog[i].arg.code = "background_processing_error"}

C10_CrashedWritesOncePublishesCloses ==
    /\ hist.failedStep = "none" => CrashWriteIdx = {} /\ pc # "updateCrashed"
    /\ hist.failedStep # "none" =>
        /\ pc \in {"updateCrashed", "done"}
        /\ pc = "updateCrashed" =>
              CrashWriteIdx = {} /\ OrchTerminalIdx = {} /\ CloseIdx = {}
        /\ pc = "done" =>
              LET n == Len(olog)
              IN /\ n >= 3
                 /\ CrashWriteIdx = {n - 2}
                 /\ olog[n - 2].arg.status = "failed"
                 /\ olog[n - 1] = LogCall("publish",
                                     ErrorEvent("background_processing_error", caught))
                 /\ olog[n] = LogCall("close", "-")
                 /\ OrchTerminalIdx = {n - 1}
                 /\ CloseIdx = {n}
                 /\ olog[n - 2].arg.ok =>
                       store.error = CrashedError(caught) /\ store.status = "failed"

\* an upload failed, the catch block's own write returned an error, and the
\* run still published its error event and closed
C10_Witness ==
    /\ pc = "done"
    /\ hist.failedStep = "uploadFile"
    /\ Len(olog) >= 3
    /\ olog[Len(olog) - 2].op = "update"
    /\ ~olog[Len(olog) - 2].arg.ok
    /\ olog[Len(olog)].op = "close"

(***************************************************************************)
(* The steps of processTask and the steps of streamImplementation          *)
(***************************************************************************)
OrchStep ==
    \/ SleepDone
    \/ \E resp \in StatusResponses : PollReturn(resp)
    \/ \E m \in ClientErrors : PollThrow(m)
    \/ \E r \in ImplementationResponses : GetImplReturn(r)
    \/ \E m \in ClientErrors : GetImplThrow(m)
    \/ \E ok \in BOOLEAN : UpdateCompletedReturn(ok)
    \/ UploadReturn
    \/ UploadThrow
    \/ \E ok \in BOOLEAN : UpdateFailedReturn(ok)
    \/ \E ok \in BOOLEAN : UpdateTimeoutReturn(ok)
    \/ \E ok \in BOOLEAN : UpdateCrashedReturn(ok)

\* a step of streamImplementation (StreamOpenOk, StreamOpenFail, StreamRead,
\* StreamEnd, StreamReadError): each of them moves the reader's own
\* variables, and StartTask is the only other step that does (out of "idle")
ReaderStep == rpc # "idle" /\ readerVars' # readerVars

\* what the Orchestrator's control flow consists of: its position and
\* locals, the store it writes, and the calls it has made
OrchFlow == <<orchVars, store, olog, hist.polls, hist.implCalls>>

(***************************************************************************)
(* C11: processTask never fails toward its caller: every failure of        *)
(* getTaskStatus or getImplementation (request_failed after the retries,   *)
(* or a payload that fails validation) is caught inside processTask and    *)
(* mapped to a terminal state (Crashed), and the run completes normally:   *)
(* the promise of processTask never rejects.                               *)
(***************************************************************************)
C11_BackendErrorsEndInCrashed ==
    /\ pc # "rejected"
    /\ hist.failedStep \in {"getTaskStatus", "getImplementation"} =>
        /\ caught \in ClientErrors
        /\ pc \in {"updateCrashed", "done"}
        /\ pc = "updateCrashed" => ENABLED (\E ok \in BOOLEAN : UpdateCrashedReturn(ok))
        /\ pc = "done" =>
              /\ EndedIn("Crashed")
              /\ olog[Len(olog) - 1] =
                     LogCall("publish",
                             ErrorEvent("background_processing_error", caught))
              /\ olog[Len(olog)] = LogCall("close", "-")

\* getImplementation failed validation, and the run is over
C11_Witness ==
    /\ pc = "done"
    /\ hist.failedStep = "getImplementation"
    /\ caught = "validation_error"
    /\ EndedIn("Crashed")

(***************************************************************************)
(* processTask and the streamImplementation call it starts, with no client *)
(* connected: every publish finds no subscriber and returns                *)
(***************************************************************************)
FlowNext ==
    \/ StartTask /\ UNCHANGED sideVars
    \/ SleepDone /\ UNCHANGED sideVars
    \/ \E resp \in StatusResponses : PollReturn(resp) /\ UNCHANGED sideVars
    \/ \E m \in ClientErrors : PollThrow(m) /\ UNCHANGED sideVars
    \/ \E r \in ImplementationResponses : GetImplReturn(r) /\ UNCHANGED sideVars
    \/ \E m \in ClientErrors : GetImplThrow(m) /\ UNCHANGED sideVars
    \/ \E ok \in BOOLEAN : UpdateCompletedReturn(ok) /\ UNCHANGED sideVars
    \/ UploadReturn /\ UNCHANGED sideVars
    \/ UploadThrow /\ UNCHANGED sideVars
    \/ \E ok \in BOOLEAN : UpdateFailedReturn(ok) /\ UNCHANGED sideVars
    \/ \E ok \in BOOLEAN : UpdateTimeoutReturn(ok) /\ UNCHANGED sideVars
    \/ \E ok \in BOOLEAN : UpdateCrashedReturn(ok) /\ UNCHANGED sideVars
    \/ StreamOpenOk /\ UNCHANGED sideVars
    \/ StreamOpenFail /\ UNCHANGED sideVars
    \/ \E chunk \in Chunks : StreamRead(chunk) /\ UNCHANGED sideVars
    \/ StreamEnd /\ UNCHANGED sideVars
    \/ StreamReadError /\ UNCHANGED sideVars

FlowSpec == Init /\ [][FlowNext]_vars

(***************************************************************************)
(* C12: a failure of streamImplementation at any point (the open fails, a  *)
(* read fails) does not change the Orchestrator's control flow: no step of *)
(* the stream reader changes the Orchestrator's position, locals, store    *)
(* writes or calls, and the poll loop never waits for the stream reader:   *)
(* whatever the reader's state, an unfinished run has its next step.       *)
(***************************************************************************)
NoWaitNoInterference ==
    /\ ReaderStep => OrchFlow' = OrchFlow
    /\ pc \notin {"idle", "done"} => ENABLED OrchStep

C12_StreamFailureLeavesPollLoopAlone == [][NoWaitNoInterference]_vars

\* the stream failed before the first poll, and the run still ended in the
\* Completed state after polling
C12_Witness ==
    /\ rpc = "failed"
    /\ chunksRead = 0
    /\ hist.completedAt = 2
    /\ EndedIn("Completed")

(***************************************************************************)
(* C13: for every configured retry count r >= 0, when every attempt of a   *)
(* request fails (network error, timeout or non-2xx status), fetchWithRetry*)
(* makes exactly r + 1 attempts in total and then fails with an error      *)
(* whose code is request_failed.                                           *)
(* The code does not keep it: the constructor's config.retries || 3 turns  *)
(* a configured 0 into 3, so that four attempts are made.                  *)
(***************************************************************************)
C13_AttemptsAreRetriesPlusOne ==
    (fetch.pc = "failed" /\ fetch.last \in AttemptFailures /\ fetch.cfg # <<>>) =>
        /\ fetch.attempts = fetch.cfg[1] + 1
        /\ fetch.error.code = "request_failed"

(***************************************************************************)
(* C14: the error surfaced by submitTask, getTaskStatus and                *)
(* getImplementation distinguishes three failure kinds: per-attempt        *)
(* timeout, non-2xx HTTP status, and payload-validation failure; a         *)
(* response that arrives with a 2xx status but a malformed payload fails   *)
(* with a validation error that is not request_failed and is not retried.  *)
(***************************************************************************)
\* what the thrown error e tells its catcher: the error wrapped by a
\* request_failed, or that the payload was refused
ErrorKind(e) ==
    IF e.name = "BoltDiyError" /\ e.code = "request_failed" THEN e.cause
    ELSE IF e.name \in {"ZodError", "SyntaxError"} THEN "validation"
    ELSE "unknown"

C14_ErrorsTellFailureKinds ==
    fetch.pc = "failed" =>
        /\ fetch.method \in Methods
        /\ fetch.last \in AttemptFailures =>
              /\ ErrorKind(fetch.error) = fetch.last
              /\ fetch.left = 0
        /\ fetch.last \notin AttemptFailures =>
              /\ ErrorKind(fetch.error) = "validation"
              /\ fetch.error.code # "request_failed"
              /\ fetch.okAt >= 1
              /\ fetch.attempts = fetch.okAt
              /\ fetch.delays = fetch.attempts - 1

\* getTaskStatus: the first attempt timed out, the second returned 2xx with
\* a payload the schema refuses
C14_Witness ==
    /\ fetch.pc = "failed"
    /\ fetch.method = "getTaskStatus"
    /\ fetch.error.name = "ZodError"
    /\ fetch.okAt = 2

(***************************************************************************)
(* What the stream reader has published, read from the log of publish      *)
(***************************************************************************)
IsStreamError(e) == e.type = T_streamError
\* the events decoded from the stream and published, in call order
DecodedLog == SelectSeq(hist.log, LAMBDA e : ~IsStreamError(e))
\* the number of error events streamImplementation has published
ErrorCount == Len(SelectSeq(hist.log, IsStreamError))
\* the events that a sequence of blocks stands for
EventsOf(blocks) ==
    [i \in 1..Len(blocks) |-> Event(blocks[i].type, blocks[i].value)]
AllGood(blocks) == \A i \in 1..Len(blocks) : blocks[i].good
GoodOf(blocks) == SelectSeq(blocks, LAMBDA b : b.good)

(***************************************************************************)
(* C15: given a buffer that consists of n complete, well-formed blocks (an *)
(* event: line, a data: line with valid JSON, a blank line), extractEvents *)
(* returns exactly n events, in input order, each with the type and parsed *)
(* data of its block, and an empty remainder; for the two-block input with *)
(* types task.status and task.completion it returns exactly those two      *)
(* events in that order.                                                   *)
(***************************************************************************)
C15_WholeBlocksDecodeInOrder ==
    (sent # <<>> /\ AllGood(sent)) =>
        /\ extractEvents(RenderAll(sent)) =
               [complete |-> EventsOf(sent), remainder |-> <<>>]
        /\ chunksRead = 1 => DecodedLog = EventsOf(sent) /\ buffer = <<>>

\* the stream's first chunk held a task.status block and a task.completion
\* block, and the reader has published the two events in that order
C15_Witness ==
    /\ chunksRead = 1
    /\ Len(sent) = 2
    /\ AllGood(sent)
    /\ sent[1].type = T_status
    /\ sent[2].type = T_completion
    /\ hist.log = <<Event(T_status, sent[1].value),
                    Event(T_completion, sent[2].value)>>

(***************************************************************************)
(* C16: a block whose data payload is not valid JSON yields no event and   *)
(* does not end the read loop: every well-formed block that follows it in  *)
(* the stream (in the same chunk or in a later one) is still decoded and   *)
(* published, and no error event is published because of the malformed     *)
(* block.                                                                  *)
(***************************************************************************)
C16_BadPayloadSkipped ==
    /\ DecodedLog = EventsOf(GoodOf(sent))
    /\ buffer = <<>>
    /\ rpc # "failed" => ErrorCount = 0
    /\ (sent # <<>> /\ ~AllGood(sent)) => rpc \in {"reading", "ended", "failed"}

\* a block with a bad payload came first, in a chunk of its own, a good
\* block came in the next chunk and was published, and the loop goes on
C16_Witness ==
    /\ rpc = "reading"
    /\ chunksRead = 2
    /\ Len(sent) = 2
    /\ ~sent[1].good
    /\ sent[2].good
    /\ hist.log = <<Event(sent[2].type, sent[2].value)>>

(***************************************************************************)
(* C17: the read loop of streamImplementation ends when the upstream       *)
(* stream closes or errors: when the upstream closes normally it publishes *)
(* no error event, and when the open or a read fails it publishes exactly  *)
(* one event of type error for the task before it returns.                 *)
(***************************************************************************)
C17_OneErrorEventOnFailure ==
    /\ rpc \in {"idle", "opening", "reading", "ended"} => ErrorCount = 0
    /\ rpc = "failed" =>
          /\ ErrorCount = 1
          /\ hist.log[Len(hist.log)] = StreamErrorEvent
    /\ rpc \in {"idle", "opening"} => sent = <<>> /\ chunksRead = 0

\* two chunks were read, then a read failed
C17_Witness ==
    /\ rpc = "failed"
    /\ chunksRead = 2
    /\ ErrorCount = 1
    /\ Len(hist.log) >= 2

(***************************************************************************)
(* C18: publish(taskId, event) attempts delivery to every sink registered  *)
(* for the task at the time of the call; when enqueue fails on one sink,   *)
(* every other registered sink still receives the event, the failing sink  *)
(* (and only that sink) is unsubscribed, and publish itself raises no      *)
(* error to its caller (it runs to the end of its loop).                   *)
(***************************************************************************)
PublishDeliversToAllOpen ==
    \A t \in MuxTasks :
        MuxPublish(t) =>
            /\ \A c \in Sinks :
                  /\ (c \in SinksOf(subscribers, t) /\ controllers[c] = "open") =>
                        queue'[c] = queue[c] + 1 /\ c \in SinksOf(subscribers', t)
                  /\ (c \in SinksOf(subscribers, t) /\ controllers[c] # "open") =>
                        queue'[c] = queue[c] /\ c \notin SinksOf(subscribers', t)
                  /\ c \notin SinksOf(subscribers, t) =>
                        queue'[c] = queue[c] /\ c \notin SinksOf(subscribers', t)
            /\ Registered(subscribers', t) =
                  SelectSeq(Registered(subscribers, t),
                            LAMBDA c : controllers[c] = "open")
            /\ \A u \in MuxTasks \ {t} :
                  Registered(subscribers', u) = Registered(subscribers, u)

C18_PublishReachesEveryOpenSink == [][PublishDeliversToAllOpen]_vars

\* a publish call met a sink whose enqueue failed and delivered to another:
\* the one is no longer registered, the other has the message and still is
C18_Witness ==
    /\ hist.partial
    /\ \E t \in MuxTasks, c \in Sinks, d \in Sinks :
          /\ controllers[c] = "open"
          /\ queue[c] = 1
          /\ c \in SinksOf(subscribers, t)
          /\ controllers[d] = "closed"
          /\ queue[d] = 0
          /\ \A u \in MuxTasks : d \notin SinksOf(subscribers, u)

(***************************************************************************)
(* C19: close(taskId) calls close on every sink registered for the task    *)
(* and removes the task's subscriber set; after the Orchestrator has       *)
(* closed a task's stream, every later publish call for that task id       *)
(* delivers to no sink, for all later interleavings of subscribe, publish  *)
(* and stream-reader activity.                                             *)
(* The code does not keep it: streamTaskUpdates subscribes a client that   *)
(* connects after the close and publishes the connected event to it, and   *)
(* the stream reader's later events reach that client too.                 *)
(***************************************************************************)
\* a step in which a publish call for the task enqueues on some sink
DeliversInStep ==
    \/ \E c \in Conns :
          /\ Attach(c)
          /\ publish(subscribe(subscribers, Task, c), controllers', Task).delivered # <<>>
    \/ /\ StreamOpenFail \/ StreamReadError
       /\ publish(subscribers, controllers, Task).delivered # <<>>
    \/ \E chunk \in Chunks :
          /\ StreamRead(chunk)
          /\ extractEvents(buffer \o chunk).complete # <<>>
          /\ publish(subscribers, controllers, Task).delivered # <<>>

ClosedStaysSilent == CloseIdx # {} => ~DeliversInStep

C19_NoDeliveryAfterClose == [][ClosedStaysSilent]_vars

(***************************************************************************)
(* C20: after any sequence of subscribe, unsubscribe, publish and close    *)
(* calls, the multiplexer's map contains no task id whose subscriber set   *)
(* is empty: unsubscribe of the last sink of a task (directly or through a *)
(* delivery failure inside publish) removes the task's entry.              *)
(***************************************************************************)
C20_NoEmptySubscriberSet ==
    \A t \in DOMAIN subscribers : subscribers[t] # <<>>

\* a sink that received a message and is still open is registered nowhere,
\* no more than the sink whose enqueue failed, and the map has no entry left
C20_Witness ==
    /\ DOMAIN subscribers = {}
    /\ hist.partial
    /\ \E c \in Sinks : queue[c] > 0 /\ controllers[c] = "open"

(***************************************************************************)
(* C21: for every sequence of subscribe and unsubscribe calls on one task  *)
(* after which every subscribed connection has been unsubscribed, a        *)
(* following publish for the task enqueues on no sink and changes nothing  *)
(* (it returns without an error); unsubscribe of a connection that is not  *)
(* registered, or for a task that has no entry, changes nothing either.    *)
(***************************************************************************)
PublishStep == PollPublishes(W_processing) \/ ReaderPublishes(ChunkOutput)

NothingHeldNothingDelivered ==
    /\ (PublishStep /\ \A c \in Sinks : ~sink[c].held) =>
          /\ sink' = sink
          /\ subscribers' = subscribers
          /\ controllers' = controllers
    /\ \A c \in Sinks :
          (DeliverUnsubscribe(c) /\ c \notin SinksOf(subscribers, Task)) =>
              /\ subscribers' = subscribers
              /\ controllers' = controllers
              /\ \A d \in Sinks : sink'[d].msgs = sink[d].msgs

C21_PublishAfterLastUnsubscribe == [][NothingHeldNothingDelivered]_vars

\* every connection was subscribed before the first publish call and has
\* been unsubscribed; publish has been called since, and no sink has a message
C21_Witness ==
    /\ Len(hist.log) > 0
    /\ \A c \in Sinks :
          /\ controllers[c] = "open"
          /\ sink[c].since = 0
          /\ ~sink[c].held
          /\ sink[c].msgs = <<>>

(***************************************************************************)
(* C22: the messages enqueued on the sink of a subscriber that is still    *)
(* registered are the messages of the publish calls made for the task      *)
(* since it subscribed, in call order, none lost, none twice, whichever of *)
(* the poll loop and the stream reader made the calls.                     *)
(***************************************************************************)
\* the messages of the publish calls after the first n
MessagesSince(n) ==
    [i \in 1..(Len(hist.log) - n) |-> Message(hist.log[n + i])]

C22_SinkHoldsPublishCallsInOrder ==
    \A c \in SinksOf(subscribers, Task) : sink[c].msgs = MessagesSince(sink[c].since)

\* a registered sink holds a message of the poll loop and one of the reader
C22_Witness ==
    \E c \in SinksOf(subscribers, Task) :
        /\ Len(sink[c].msgs) >= 2
        /\ \E i, j \in 1..Len(hist.log) :
              /\ i > sink[c].since
              /\ j > sink[c].since
              /\ hist.log[i].type = T_status
              /\ hist.log[j].type # T_status

(***************************************************************************)
(* C23: two subscribers registered on the task over the same interval hold *)
(* the same messages in the same order, however the publish calls of the   *)
(* poll loop and of the stream reader interleave; and the publish calls    *)
(* leave the subscriber set sound: no connection is registered twice, and  *)
(* a connection that was subscribed, not unsubscribed, and whose sink has  *)
(* not failed is still registered.                                         *)
(***************************************************************************)
C23_SubscribersSeeTheSame ==
    /\ \A c, d \in SinksOf(subscribers, Task) :
          sink[c].since = sink[d].since => sink[c].msgs = sink[d].msgs
    /\ \A m, n \in 1..Len(Registered(subscribers, Task)) :
          Registered(subscribers, Task)[m] = Registered(subscribers, Task)[n]
              => m = n
    /\ \A c \in Sinks :
          (sink[c].held /\ controllers[c] = "open")
              => c \in SinksOf(subscribers, Task)

\* two sinks subscribed at the same point hold two messages each, of both
\* producers
C23_Witness ==
    \E c, d \in SinksOf(subscribers, Task) :
        /\ c # d
        /\ sink[c].since = sink[d].since
        /\ Len(sink[c].msgs) >= 2
        /\ \E i, j \in 1..Len(hist.log) :
              hist.log[i].type = T_status /\ hist.log[j].type # T_status

(***************************************************************************)
(* C24: the abort of a client's request unsubscribes that client's         *)
(* connection and nothing else: the other subscriptions of the same task   *)
(* and the subscriptions of the other task stay as they are, in the same   *)
(* order; neither the disconnect nor the abort listener touches            *)
(* processTask, which has its next step while its task has no subscriber,  *)
(* until it has written its terminal state.                                *)
(***************************************************************************)
\* the step in which the abort listener of connection c runs, and the one
\* in which its client goes away
AbortListenerRuns(c) == client[c] = "gone" /\ client'[c] = "aborted"
ClientGoes(c) == client[c] = "attached" /\ client'[c] = "gone"

DisconnectUnsubscribesOnlyItself ==
    /\ \A c \in Sinks :
          AbortListenerRuns(c) =>
              /\ \A t \in MuxTasks :
                    Registered(subscribers', t) =
                        SelectSeq(Registered(subscribers, t),
                                  LAMBDA x : ~(x = c /\ t = req[c]))
              /\ controllers' = controllers
              /\ OrchFlow' = OrchFlow
    /\ \A c \in Sinks :
          ClientGoes(c) => subscribers' = subscribers /\ OrchFlow' = OrchFlow
    /\ (/\ Task \notin DOMAIN subscribers
        /\ pc \notin {"idle", "done"}
        /\ ~(pc = "sleep" /\ hist.polls >= MaxPolls))
          => ENABLED ConnOrchStep

C24_DisconnectUnsubscribesOnlyItself == [][DisconnectUnsubscribesOnlyItself]_vars

\* a client of t1 has disconnected and its abort listener has run; the
\* client of the other task is still subscribed; t1 has no subscriber, and
\* processTask has ended in the Completed state
C24_Witness ==
    /\ Task \notin DOMAIN subscribers
    /\ EndedIn("Completed")
    /\ \E c, d \in Sinks :
          /\ client[c] = "aborted"
          /\ req[c] = Task
          /\ client[d] = "attached"
          /\ req[d] # Task
          /\ d \in SinksOf(subscribers, req[d])
          /\ controllers[d] = "open"

(***************************************************************************)
(* C25: in every reachable state each subscription the multiplexer holds   *)
(* belongs to a client connection that is still open and whose sink has    *)
(* not been closed: after a client has disconnected, the multiplexer holds *)
(* no entry for its sink.  It is stated here with the allowance that the   *)
(* entry of a client that has gone may stay until the abort listener of    *)
(* its request has run.                                                    *)
(* The code does not keep it, even so: for a client that had gone before   *)
(* start(controller) ran, the listener is added to a signal that is        *)
(* aborted already and never runs; the cancelled sink stays registered     *)
(* until a publish call for its task fails on it, and none may come.       *)
(***************************************************************************)
C25_SubscriptionsHaveLiveSinks ==
    \A t \in MuxTasks : \A c \in SinksOf(subscribers, t) :
        \/ client[c] = "attached" /\ controllers[c] = "open"
        \/ client[c] = "gone"
        \/ client[c] = "deaf" /\ controllers[c] = "open"

(***************************************************************************)
(* C26: after every getTaskStatus call that returns, processTask publishes *)
(* exactly one task.status event, with the status and the progress just    *)
(* returned, whether or not they are those of the poll before, and also    *)
(* when the status is terminal: the task.completion event of the Completed *)
(* branch and the task.error event of the Failed branch come after a       *)
(* task.status event that carries the terminal status.                     *)
(***************************************************************************)
StatusIdx == {i \in 1..Len(hist.log) : hist.log[i].type = T_status}

\* the getTaskStatus calls that have returned
PollsReturned ==
    hist.polls - (IF pc = "getTaskStatus" THEN 1 ELSE 0)
               - (IF hist.failedStep = "getTaskStatus" THEN 1 ELSE 0)

StatusPublishedAfterEachPoll ==
    /\ \A resp \in StatusResponses :
          PollReturn(resp) =>
              /\ Len(hist'.log) = Len(hist.log) + 1
              /\ SubSeq(hist'.log, 1, Len(hist.log)) = hist.log
              /\ hist'.log[Len(hist'.log)].type = T_status
              /\ hist'.log[Len(hist'.log)].data.status = resp.status
              /\ hist'.log[Len(hist'.log)].data.progress = resp.progress
    /\ Cardinality(StatusIdx) = PollsReturned
    /\ \A j \in 1..Len(hist.log) :
          (/\ hist.log[j].type \in TerminalTypes
           /\ BranchOfEvent(hist.log[j]) \in {"Completed", "Failed"})
              => \E i \in StatusIdx :
                    /\ i < j
                    /\ hist.log[i].data.status =
                          (IF BranchOfEvent(hist.log[j]) = "Completed"
                           THEN "completed" ELSE "failed")

C26_StatusPublishedAfterEachPoll == [][StatusPublishedAfterEachPoll]_vars

\* two polls returned the same status and progress and a third returned
\* "completed": three task.status events, then the task.completion event
C26_Witness ==
    /\ EndedIn("Completed")
    /\ \E i, j, k, n \in 1..Len(hist.log) :
          /\ i < j /\ j < k /\ k < n
          /\ hist.log[i] = hist.log[j]
          /\ hist.log[i].type = T_status
          /\ hist.log[k].type = T_status
          /\ hist.log[k].data.status = "completed"
          /\ hist.log[n].type = T_completion

(***************************************************************************)
(* C27: round trip of the wire format: the message publish builds for an   *)
(* event {type, data, timestamp} whose data is an object, given as one     *)
(* buffer to extractEvents, decodes to exactly one event, of the same      *)
(* type, whose data is the original data object merged with the timestamp  *)
(* field (as JSON: a member whose value is undefined is absent); nothing   *)
(* of the message is left in the remainder.                                *)
(***************************************************************************)
C27_WireRoundTrip ==
    wire.pc = "decoded" =>
        /\ wire.out.complete =
              <<[type |-> wire.event.type,
                 data |-> Defined(PutMember(wire.event.data, TimestampKey,
                                            wire.event.timestamp))]>>
        /\ wire.out.remainder = <<>>

\* an event whose data holds a quote, a newline with white space around it
\* and a timestamp member of its own has been decoded
C27_Witness ==
    /\ wire.pc = "decoded"
    /\ \E i, j \in 1..Len(wire.event.data) :
          /\ wire.event.data[i] = <<TimestampKey, <<"a", Quote, "b">> >>
          /\ wire.event.data[j][2] = <<" ", "x", NL, " ">>
    /\ Len(wire.out.complete) = 1
    /\ Len(wire.out.complete[1].data) = 2

C28_RejectsWhatItReadAsProcessing ==
    \A d \in Requests :
        api.del[d].pc = "invalid_request" <=> api.del[d].seen = "processing"

(***************************************************************************)
(* C29: an authenticated (and admitted) request PUT /api/v1/tasks/{id} is  *)
(* dispatched to updateTask and DELETE /api/v1/tasks/{id} to deleteTask,   *)
(* with that id as the task id, and GET /api/v1/tasks/{id}/stream to       *)
(* streamTaskUpdates; no documented task endpoint is dispatched to the     *)
(* not_found default.                                                      *)
(***************************************************************************)
DocumentedTaskEndpoints ==
    { <<"POST", <<"api", "v1", "tasks">> >>,
      <<"GET", <<"api", "v1", "tasks", "t1", "status">> >>,
      <<"GET", <<"api", "v1", "tasks", "t1", "implementation">> >>,
      <<"PUT", <<"api", "v1", "tasks", "t1">> >>,
      <<"DELETE", <<"api", "v1", "tasks", "t1">> >>,
      <<"GET", <<"api", "v1", "tasks", "t1", "stream">> >> }

C29_DocumentedTaskEndpointsAreDispatched ==
    api.pc = "dispatched" =>
        LET parts == PathParts(api.pathname)
        IN  /\ (api.method = "PUT" /\ parts = <<"api", "v1", "tasks", "t1">>)
                  => api.to = Handler("updateTask", "t1")
            /\ (api.method = "DELETE" /\ parts = <<"api", "v1", "tasks", "t1">>)
                  => api.to = Handler("deleteTask", "t1")
            /\ (api.method = "GET"
                   /\ parts = <<"api", "v1", "tasks", "t1", "stream">>)
                  => api.to = Handler("streamTaskUpdates", "t1")
            /\ <<api.method, parts>> \in DocumentedTaskEndpoints
                  => api.to.handler # "not_found"

\* what does hold: the documented routes other than PUT and DELETE reach
\* their handlers
C29_OtherTaskEndpointsAreDispatched ==
    (api.pc = "dispatched" /\ api.method \notin {"PUT", "DELETE"}
        /\ <<api.method, PathParts(api.pathname)>> \in DocumentedTaskEndpoints)
    => /\ api.to.handler # "not_found"
       /\ api.to.taskId \in {"none", "t1"}

(***************************************************************************)
(* C30: for one client identifier at most 60 requests are admitted within  *)
(* a one-minute window, under every interleaving of its concurrent         *)
(* requests (stated for the runs in which no count of the limiter has      *)
(* failed); a request beyond the limit is answered 429 without reaching a  *)
(* handler.                                                                *)
(***************************************************************************)
C30_AtMostSixtyAdmitted == ~api.errors => api.admitted <= MAX_REQUESTS

\* what does hold: a request that counted MAX_REQUESTS rows or more is
\* never let through, and without failures every admitted one has its row
C30_FullCountIsRejected ==
    /\ ~api.errors => api.admitted = api.rows
    /\ api.rows <= MAX_REQUESTS + MaxRequests - 1
    /\ \A r \in Requests :
          api.rq[r].pc = "counted" => api.rq[r].count <= api.rows

(***************************************************************************)
(* C31: decoding does not depend on the chunk boundaries: for a stream of  *)
(* well-formed blocks and every way of splitting it into successive        *)
(* chunks, once the whole stream has been read the events published by     *)
(* streamImplementation are those published when the stream arrives as one *)
(* chunk.                                                                  *)
(***************************************************************************)
C31_ChunkBoundariesDoNotMatter ==
    (sent.first = <<>> /\ sent.at = Len(StreamText(sent)))
        => hist.log = extractEvents(StreamText(sent)).complete

\* what does hold: a stream of well-formed blocks read as one chunk is
\* published whole, and no splitting adds an event or changes the order
C31_OneChunkPublishesAll ==
    (sent.first = <<>> /\ sent.at = Len(StreamText(sent)))
        => /\ chunksRead = 1 => hist.log = EventsOf(sent.blocks)
           /\ Len(hist.log) <= Len(sent.blocks)

(***************************************************************************)
(* C32: the decoder makes progress: whatever lines came before it (a line  *)
(* that is neither an event: line, a data: line nor blank included), a     *)
(* complete well-formed block that is received is decoded and published,   *)
(* and nothing of it is carried over in the buffer.  Stated for a block    *)
(* that arrives whole, as one chunk, after complete lines.                 *)
(***************************************************************************)
\* the chunk read in this step is the whole block b, and complete lines
\* (or nothing) were read before it
WholeBlockArrives(b) ==
    /\ sent'.at = sent.at + Len(Render(b))
    /\ sent.at = 0 \/ StreamText(sent)[sent.at] = NL
    /\ SubSeq(StreamText(sent), sent.at + 1, sent'.at) = Render(b)

WholeBlockIsPublished ==
    \A b \in ShortBlocks :
        WholeBlockArrives(b) =>
            /\ hist'.log = Append(hist.log, Event(b.type, b.value))
            /\ buffer' = <<>>

C32_DecoderMakesProgress == [][WholeBlockIsPublished]_vars

\* what does hold: the buffer is empty or starts with the line the loop
\* stopped at, and it never holds more than has been received
C32_BufferIsWhatTheLoopLeft ==
    /\ Len(buffer) <= sent.at
    /\ buffer # <<>> =>
          LET line == SplitLines(buffer)[1]
          IN  /\ line # <<>>
              /\ ~StartsWith(line, EventPrefix)
              /\ ~StartsWith(line, DataPrefix)

(***************************************************************************)
(* C33: fetchWithRetry stops at the first successful attempt: if attempt j *)
(* is the first to return a 2xx response, exactly j attempts are made      *)
(* (1 <= j <= this.retries + 1), its response is returned and              *)
(* fetchWithRetry raises no error; a failed attempt is retried in the same *)
(* way whatever its kind (network error, timeout, non-2xx response); one   *)
(* delay is waited before each retry and none after the last failed        *)
(* attempt.                                                                *)
(***************************************************************************)
C33_StopsAtFirstSuccess ==
    /\ fetch.okAt > 0 =>
          /\ fetch.attempts = fetch.okAt
          /\ fetch.okAt <= fetch.retries + 1
          /\ fetch.delays = fetch.okAt - 1
          /\ fetch.pc \in {"json", "returned", "failed"}
          /\ fetch.error.code # "request_failed"
    /\ fetch.pc = "fetching" =>
          /\ fetch.delays = fetch.attempts - 1
          /\ fetch.left = fetch.retries + 1 - fetch.attempts
    /\ fetch.pc = "delay" =>
          /\ fetch.delays = fetch.attempts
          /\ fetch.left > 0
          /\ fetch.last \in AttemptFailures
    /\ fetch.error.code = "request_failed" =>
          /\ fetch.okAt = 0
          /\ fetch.attempts = fetch.retries + 1
          /\ fetch.delays = fetch.retries

\* a non-2xx response, then a success at the third attempt: three attempts,
\* two delays, and the method has returned
C33_Witness ==
    /\ fetch.pc = "returned"
    /\ fetch.okAt = 3
    /\ fetch.attempts = 3
    /\ fetch.delays = 2
    /\ fetch.last = "status"

(***************************************************************************)
(* C34: a getTaskStatus call that fails ends the run at once in the        *)
(* Crashed branch with code background_processing_error, whatever number   *)
(* of poll attempts remain: the failure is not counted as an attempt, no   *)
(* further wait or poll is made, and no task.status event is published for *)
(* the failed poll.                                                        *)
(***************************************************************************)
C34_FailedPollCrashesTheRun ==
    hist.failedStep = "getTaskStatus" =>
        /\ pc \in {"updateCrashed", "done"}
        /\ retries = hist.polls - 1
        /\ hist.waits = hist.polls
        /\ hist.statusPubs = hist.polls - 1
        /\ hist.nonTerminal = hist.polls - 1
        /\ hist.implCalls = 0
        /\ UpdateIdx \subseteq {Len(olog) - 2}
        /\ pc = "done" =>
              /\ EndedIn("Crashed")
              /\ olog[Len(olog) - 2].arg.code = "background_processing_error"
              /\ olog[Len(olog) - 1] =
                     LogCall("publish",
                             ErrorEvent("background_processing_error", caught))
              /\ olog[Len(olog)] = LogCall("close", "-")

\* the second poll failed with 28 attempts left, and the run is over
C34_Witness ==
    /\ pc = "done"
    /\ hist.failedStep = "getTaskStatus"
    /\ hist.polls = 2
    /\ retries = 1
    /\ hist.statusPubs = 1

(***************************************************************************)
(* C35: in every run getTaskStatus is called at most 30 times, every poll  *)
(* (the first included) is preceded by one wait of the polling interval,   *)
(* and no poll is made after a poll has returned completed or failed.      *)
(***************************************************************************)
C35_AtMostThirtyPollsEachAfterAWait ==
    /\ hist.polls <= MAX_RETRIES
    /\ hist.waits = IF pc = "sleep" THEN hist.polls + 1 ELSE hist.polls
    /\ pc = "idle" => hist.polls = 0
    /\ hist.completedAt > 0 => hist.polls = hist.completedAt
    /\ hist.failedAt > 0 => hist.polls = hist.failedAt
    /\ (hist.completedAt > 0 \/ hist.failedAt > 0) =>
          pc \notin {"sleep", "getTaskStatus"}

\* the thirtieth poll has returned a status that is not terminal: thirty
\* waits, thirty polls, and the loop is left
C35_Witness ==
    /\ hist.polls = MAX_RETRIES
    /\ hist.waits = MAX_RETRIES
    /\ hist.nonTerminal = MAX_RETRIES
    /\ pc = "updateTimeout"

(***************************************************************************)
(* C36: on the Completed path uploadFile is called exactly once per file   *)
(* of the fetched result, in list order, and before the task.completion    *)
(* event is published; if an upload fails, no later file is uploaded and   *)
(* no task.completion event is published for the task.                    *)
(***************************************************************************)
\* the uploadFile calls made so far, in call order
UploadCalls == SelectSeq(olog, LAMBDA e : e.op = "uploadFile")
CompletionIdx ==
    {i \in 1..Len(olog) :
        olog[i].op = "publish" /\ olog[i].arg.type = T_completion}

C36_OneUploadPerFileBeforeCompletion ==
    LET calls == UploadCalls
    IN  /\ calls # <<>> => HasFiles(result) /\ Len(calls) <= Len(result.files[1])
        /\ \A k \in 1..Len(calls) :
              /\ calls[k].arg.name = result.files[1][k].name
              /\ calls[k].arg.ok \/ k = Len(calls)
        /\ \A i \in CompletionIdx :
              /\ \A j \in 1..Len(olog) : olog[j].op = "uploadFile" => j < i
              /\ calls = ExpectedUploads(result)
        /\ (\E k \in 1..Len(calls) : ~calls[k].arg.ok) =>
              /\ CompletionIdx = {}
              /\ pc \in {"updateCrashed", "done"}

\* the upload of the first of two files failed, and the run is over: one
\* uploadFile call, no completion event
C36_Witness ==
    /\ pc = "done"
    /\ HasFiles(result)
    /\ Len(result.files[1]) = MaxFiles + 1
    /\ Len(UploadCalls) = 1
    /\ ~UploadCalls[1].arg.ok
    /\ EndedIn("Crashed")

(***************************************************************************)
(* C37: events are isolated per task: an event published for a task is     *)
(* enqueued only on sinks subscribed to that task, and subscribe,          *)
(* unsubscribe, publish and close on one task leave the subscriber set of  *)
(* every other task unchanged, under every interleaving of the calls made  *)
(* for two tasks.                                                          *)
(***************************************************************************)
CallStaysInItsTask ==
    /\ \A t \in MuxTasks :
          Registered(subscribers', t) # Registered(subscribers, t)
              => hist'.task = t
    /\ \A c \in Sinks :
          sink'[c] # sink[c] =>
              /\ Len(sink'[c]) = Len(sink[c]) + 1
              /\ sink'[c][Len(sink'[c])].task = hist'.task
              /\ req'[c] = hist'.task
              /\ c \in SinksOf(IF hist'.op = "start" THEN subscribers'
                               ELSE subscribers, hist'.task)

C37_EventsAreIsolatedPerTask == [][CallStaysInItsTask]_vars

\* each of the two tasks has a subscriber of its own, and each of them has
\* received its connected event and an event of its task's run
C37_Witness ==
    /\ req = <<"t1", "t2">>
    /\ SinksOf(subscribers, "t1") = {1}
    /\ SinksOf(subscribers, "t2") = {2}
    /\ Len(sink[1]) = 2 /\ sink[1][2].by = 0
    /\ Len(sink[2]) = 2 /\ sink[2][2].by = 0

(***************************************************************************)
(* C38: each client that attaches to a task's stream receives exactly one  *)
(* connected event, as the first event on its sink, and a client already   *)
(* attached to the task receives no connected event when another client    *)
(* attaches to the same task.                                              *)
(***************************************************************************)
ConnectedEvents(c) ==
    {i \in 1..Len(sink[c]) : sink[c][i].type = T_connected}

C38_OneConnectedEventPerClient ==
    \A c \in Sinks :
        req[c] # "none" =>
            /\ ConnectedEvents(c) = {1}
            /\ sink[c][1].by = c

\* what holds: the first message on the sink of a connection is the
\* connected event its own start handler published, and every later
\* connected event on it was published by the start handler of a later
\* connection to the same task
C38_FirstEventIsOwnConnected ==
    \A c \in Sinks :
        req[c] # "none" =>
            /\ Len(sink[c]) >= 1
            /\ sink[c][1].type = T_connected
            /\ sink[c][1].by = c
            /\ \A i \in ConnectedEvents(c) :
                  i > 1 => /\ sink[c][i].by > c
                           /\ req[sink[c][i].by] = req[c]

(***************************************************************************)
(* C39: for every subscription to a task whose run reaches a terminal      *)
(* state, the server eventually closes the subscription's sink unless the  *)
(* client disconnects first, whether the client attached before or after   *)
(* the run reached its terminal state.                                     *)
(***************************************************************************)
C39_EverySinkIsClosedInTheEnd ==
    \A c \in Conns :
        (client[c] = "attached") ~> (controllers[c] = "closed")

\* what holds: a sink attached while processTask has not made its close
\* call is closed, by that call at the latest
C39_SinkAttachedBeforeCloseIsClosed ==
    \A c \in Conns :
        (client[c] = "attached" /\ pc # "done") ~> (controllers[c] = "closed")

\* and when processTask is done, the sinks still open are those of the
\* clients that attached after its close call: they are registered
C39_OpenAfterDoneIsLateComer ==
    pc = "done" =>
        \A c \in Conns :
            controllers[c] = "open" => c \in SinksOf(subscribers, Task)

(***************************************************************************)
(* C40: every run of processTask ends, in one of the terminal states,      *)
(* provided each backend, store and upload call returns or fails: whether  *)
(* or not the stream reader finishes, a subscriber is attached or the      *)
(* backend ever reports a terminal status; and each getTaskStatus and      *)
(* getImplementation call ends after at most this.retries + 1 attempts.    *)
(***************************************************************************)
RequestInProgress == fetch.pc \in {"fetching", "delay", "json"}
RequestEnded == fetch.pc \in {"returned", "failed"}

C40_ProcessTaskTerminates ==
    /\ <>[](pc = "done" /\ hist.termPub >= 1)
    /\ [](fetch.attempts <= fetch.retries + 1)
    /\ (RequestInProgress ~> RequestEnded)

\* the same with clients attaching and disconnecting, where each call of
\* the client is one step
C40_TerminatesWithClients == <>[](pc = "done" /\ hist.termPub >= 1)

\* processTask has ended by the timeout: the backend never reported a
\* terminal status, the upstream stream is still open and no client has
\* ever attached
C40_Witness ==
    /\ pc = "done"
    /\ hist.polls = MAX_RETRIES
    /\ hist.completedAt = 0 /\ hist.failedAt = 0 /\ caught = "none"
    /\ rpc = "reading"
    /\ \A c \in Conns : client[c] = "none"

====
